---- MODULE Spec2Model ----
(***************************************************************************)
(* Model of inventoryd: a DTLS 1.2 PSK client (record layer + handshake),  *)
(* the CoAP message layer on top of it, the LwM2M agent (Register, Update, *)
(* dispatch, Observe) and the bootstrap agent.                             *)
(*                                                                         *)
(* The specifications share the variables:                                 *)
(*   SpecHandshake  DtlsDial and the processHandshake goroutine            *)
(*   SpecWrite      concurrent Dtls.Write calls on an established          *)
(*                  connection                                             *)
(*   Spec           the LwM2M agent: update task, CoAP receive task        *)
(*   SpecRun        the same with Run, the termination signal and the two  *)
(*                  stop channels                                          *)
(*   SpecObserve    a registered agent: server requests (GET, observe,     *)
(*                  RST), the observe task, the update task's teardown     *)
(*   SpecDispatch   a registered agent: GET, PUT and POST of the server    *)
(*                  against a Handler that can fail                        *)
(*   SpecBootstrap  the bootstrap agent on its clear UDP socket            *)
(*   SpecHandshakeFair  SpecHandshake with weak fairness, for termination  *)
(*   SpecInteger    Integer resource values: string -> TLV value -> string *)
(*   SpecTLV        Marshal and Unmarshal of one TLV                       *)
(*   SpecOptions    BuildOptions and ParseOptions of a list of options     *)
(*   SpecRecord     one received datagram by its lengths: ParsePacket,     *)
(*                  decrypt                                                *)
(*   SpecNotify     message-ids statement by statement: SendRequest,       *)
(*                  SendRelatedMessage, the RST of a notification          *)
(*   SpecTeardown   Spec with Lwm2m.close statement by statement           *)
(***************************************************************************)
EXTENDS Integers, Sequences, FiniteSets, TLC

VARIABLES
    dtls,        \* Dtls struct (lwm2m_device_management.go:439-452)
    handshake,   \* DtlsHandshakeParams (part_001:14-26)
    hsPC,        \* position of the processHandshake goroutine
    dialPC,      \* position of DtlsDial (select on ctx.Done / notifyCh)
    dialResult,  \* what DtlsDial returned
    sent,        \* records written to the open UDP socket, in order
    trace,       \* history: handshake events (send / recv / fail)
    wPC,         \* per writer task: position inside Dtls.Write
    wPkt,        \* per writer task: the DtlsPacket being built
    wTmp,        \* per writer task: value read by ClientSequence++
    wCount,      \* number of Write calls started
    Connection,  \* Lwm2m.Connection: "nil" or "coap"
    registered,  \* Lwm2m.registered
    Location,    \* Lwm2m.Location
    coap,        \* Coap struct: NextMessageID, ChInProcess
    updPC,       \* position of the update task (StartUpdate goroutine)
    updCh,       \* channel the update task waits on ("none" when not waiting)
    rtPC,        \* position of the CoAP receive task (ReadCoapMessage)
    rtMsg,       \* message the receive task holds
    ghost,       \* history of the agent: last results, bookkeeping
    runPC,       \* position of Inventoryd.Run
    obsPC,       \* position of the observe task (StartObserving goroutine)
    obsTodo,     \* observe task: the observations its range loop has left
    observedInstance,  \* Lwm2m.observedInstance
    observedResource,  \* Lwm2m.observedResource
    handler,     \* the resource store behind Lwm2mHandler: value per resource
    boot,        \* lwm2mBootstrap: position of Bootstrap, its socket, the store
    codec,       \* a call of a conversion function: its input, step and results
    local        \* per task: the values SendRequest / SendRelatedMessage hold
                 \* between their statements, and the message-ids given out

vars == <<dtls, handshake, hsPC, dialPC, dialResult, sent, trace,
          wPC, wPkt, wTmp, wCount,
          Connection, registered, Location, coap, updPC, updCh, rtPC, rtMsg, ghost,
          runPC, obsPC, obsTodo, observedInstance, observedResource, handler, boot, codec,
          local>>

writeVars == <<wPC, wPkt, wTmp, wCount>>
observeVars == <<obsPC, obsTodo, observedInstance, observedResource, handler>>
agentVars == <<Connection, registered, Location, coap, updPC, updCh, rtPC, rtMsg, ghost,
               runPC, observeVars>>

(***************************************************************************)
(* Program constants                                                       *)
(***************************************************************************)
dtlsContentTypeChangeCipherSpec == 20
dtlsContentTypeHandshake == 22
dtlsContentTypeApplicationData == 23

dtlsHandshakeTypeClientHello == 1
dtlsHandshakeTypeServerHello == 2
dtlsHandshakeTypeHelloVerifyRequest == 3
dtlsHandshakeTypeServerHelloDone == 14
dtlsHandshakeTypeClientKeyExchange == 16
dtlsHandshakeTypeFinished == 20

Uint16 == 65536

(***************************************************************************)
(* Byte strings are kept symbolic.  EmptyBytes is a zero-length slice /    *)
(* a nil slice; the other values stand for distinct byte strings.          *)
(***************************************************************************)
EmptyBytes == <<>>
ServerCookie == <<"cookie">>
ServerRandomBytes == <<"server random">>
ServerSessionBytes == <<"session">>
ClientRandomBytes == <<"client random">>
WrongVerifyData == <<"server finished", "other transcript">>

(***************************************************************************)
(* Dtls struct after `dtls := &Dtls{Connection: conn}`.                    *)
(* Keys stands for ClientWriteKey/ServerWriteKey/ClientIV/ServerIV, which  *)
(* are nil until GenerateSecurityParams sets all four together.            *)
(***************************************************************************)
NewDtls ==
    [Connection |-> "open",
     ServerEpoch |-> 0, ClientEpoch |-> 0,
     ServerSequence |-> 0, ClientSequence |-> 0,
     Keys |-> EmptyBytes,
     ClientEncrypt |-> FALSE, ServerEncrypt |-> FALSE]

(* DtlsHandshakeParams after DtlsDial filled Identity, PreMasterSecret,    *)
(* ClientRandom.                                                           *)
NewHandshake ==
    [ServerSequence |-> 0, ClientSequence |-> 0,
     Cookie |-> EmptyBytes, Session |-> EmptyBytes,
     ClientRandom |-> ClientRandomBytes, ServerRandom |-> EmptyBytes,
     MasterSecret |-> EmptyBytes,
     Messages |-> <<>>, Verified |-> FALSE]

(***************************************************************************)
(* Handshake messages (plaintext form, what ToBytes produces and what      *)
(* Parse reads).                                                           *)
(***************************************************************************)
HsMsg(type, seq, cookie, verify) ==
    [Type |-> type, Sequence |-> seq, Cookie |-> cookie, Verify |-> verify]

(* dtlsPrf(MasterSecret, "client finished", SHA256(Messages), 12) *)
GenerateClientVerifyData(h) == <<"client finished", h.MasterSecret, h.Messages>>

(* dtlsPrf(MasterSecret, "server finished", SHA256(Messages), 12) *)
GenerateServerVerifyData(h) == <<"server finished", h.MasterSecret, h.Messages>>

(* DtlsHandshake.ToBytes for the three types the client sends *)
ToBytes(type, h) ==
    IF type = dtlsHandshakeTypeClientHello
    THEN HsMsg(type, h.ClientSequence, h.Cookie, EmptyBytes)
    ELSE IF type = dtlsHandshakeTypeClientKeyExchange
    THEN HsMsg(type, h.ClientSequence, EmptyBytes, EmptyBytes)
    ELSE IF type = dtlsHandshakeTypeFinished
    THEN HsMsg(type, h.ClientSequence, EmptyBytes, GenerateClientVerifyData(h))
    ELSE HsMsg(type, h.ClientSequence, EmptyBytes, EmptyBytes)

(***************************************************************************)
(* A DTLS record on the wire.                                              *)
(*   Full : the datagram holds the 13-byte header and ContentLength bytes  *)
(*   Enc  : the content is AES-CCM-8 protected under the sender's write    *)
(*          key and its MAC verifies                                       *)
(*   Body : the plaintext content (a handshake message, or symbolic bytes) *)
(*   Nonce: the epoch||sequence that encrypt put into the CCM nonce and    *)
(*          the explicit nonce prefix (empty for an unprotected record)    *)
(***************************************************************************)
Record(type, epoch, seq, full, enc, body) ==
    [Type |-> type, Epoch |-> epoch, Sequence |-> seq,
     Full |-> full, Enc |-> enc, Body |-> body,
     Nonce |-> IF enc THEN <<epoch, seq>> ELSE <<>>]

NoBody == HsMsg(0, 0, EmptyBytes, EmptyBytes)

(* DtlsHandshake.Parse: the effect of one handshake message on the params *)
HandshakeParse(h, m) ==
    LET h1 == [h EXCEPT !.ServerSequence = m.Sequence] IN
    IF m.Type = dtlsHandshakeTypeHelloVerifyRequest
    THEN [h1 EXCEPT !.Cookie = m.Cookie]
    ELSE IF m.Type = dtlsHandshakeTypeServerHello
    THEN [h1 EXCEPT !.ServerRandom = ServerRandomBytes,
                    !.Session = ServerSessionBytes,
                    !.Messages = Append(h.Messages, m)]
    ELSE IF m.Type = dtlsHandshakeTypeServerHelloDone
    THEN [h1 EXCEPT !.Messages = Append(h.Messages, m)]
    ELSE IF m.Type = dtlsHandshakeTypeFinished
    THEN [h1 EXCEPT !.Verified = (m.Verify = GenerateServerVerifyData(h))]
    ELSE h1

(***************************************************************************)
(* Dtls.ParsePacket on one record of a datagram.                           *)
(* Result: pkt = "nil" | "ok" | "panic", content = the plaintext handed    *)
(* on, and the Dtls / handshake state afterwards.                          *)
(*  - too short / truncated: nil                                           *)
(*  - ServerEncrypt: decrypt; aes.NewCipher panics on a nil key; a MAC     *)
(*    that does not verify gives nil                                       *)
(*  - otherwise the raw content is used as is; a protected record then     *)
(*    reads as bytes of no known handshake type                            *)
(***************************************************************************)
Garbage == HsMsg(0, 0, EmptyBytes, EmptyBytes)

ParseResult(pkt, content, d, h) == [pkt |-> pkt, content |-> content, d |-> d, h |-> h]

(* ParsePacket that hands the decrypted bytes on whatever decrypt's verify *)
(* result is                                                               *)
MutParsePacket(d, h, rec) ==
    IF ~rec.Full THEN ParseResult("nil", NoBody, d, h)
    ELSE IF rec.Type = dtlsContentTypeHandshake
    THEN ParseResult("ok", rec.Body, d, HandshakeParse(h, rec.Body))
    ELSE IF rec.Type = dtlsContentTypeChangeCipherSpec
    THEN ParseResult("ok", rec.Body, [d EXCEPT !.ServerEncrypt = TRUE], h)
    ELSE ParseResult("ok", rec.Body, d, h)

ParsePacket(d, h, rec) ==
    IF ~rec.Full THEN ParseResult("nil", NoBody, d, h)
    ELSE IF d.ServerEncrypt /\ d.Keys = EmptyBytes THEN ParseResult("panic", NoBody, d, h)
    ELSE IF d.ServerEncrypt /\ ~rec.Enc THEN ParseResult("nil", NoBody, d, h)
    ELSE LET content == IF d.ServerEncrypt \/ ~rec.Enc THEN rec.Body ELSE Garbage IN
         IF rec.Type = dtlsContentTypeHandshake
         THEN ParseResult("ok", content, d, HandshakeParse(h, content))
         ELSE IF rec.Type = dtlsContentTypeChangeCipherSpec
         THEN ParseResult("ok", content, [d EXCEPT !.ServerEncrypt = TRUE], h)
         ELSE ParseResult("ok", content, d, h)

(* An empty remainder of the read buffer: len(raw) < 13 *)
NoRecord == Record(0, 0, 0, FALSE, FALSE, NoBody)

Second(dg) == IF Len(dg) >= 2 THEN dg[2] ELSE NoRecord

(* Two ParsePacket calls on one datagram, as GetSession and SendFinished   *)
(* do: the second runs only when the first returned a packet.              *)
ParseTwo(d, h, dg) ==
    LET r1 == ParsePacket(d, h, dg[1]) IN
    IF r1.pkt # "ok" THEN r1 ELSE ParsePacket(r1.d, r1.h, Second(dg))

(***************************************************************************)
(* What the server side of the UDP socket can deliver.  Every record a     *)
(* peer may put into a datagram is drawn from ServerRecords: the messages  *)
(* of the handshake, a Finished whose verify_data is / is not the value    *)
(* the client computes, protected and unprotected variants, application    *)
(* data and a truncated record.  A datagram holds one or two records.      *)
(***************************************************************************)
ServerHs(enc, body) == Record(dtlsContentTypeHandshake, IF enc THEN 1 ELSE 0, body.Sequence, TRUE, enc, body)

ServerRecords(h) ==
    { ServerHs(FALSE,
               HsMsg(dtlsHandshakeTypeHelloVerifyRequest, 0, ServerCookie, EmptyBytes)),
      ServerHs(FALSE,
               HsMsg(dtlsHandshakeTypeServerHello, 1, EmptyBytes, EmptyBytes)),
      ServerHs(FALSE,
               HsMsg(dtlsHandshakeTypeServerHelloDone, 2, EmptyBytes, EmptyBytes)),
      Record(dtlsContentTypeChangeCipherSpec, 0, 3, TRUE, FALSE, NoBody),
      ServerHs(TRUE,
               HsMsg(dtlsHandshakeTypeFinished, 3, EmptyBytes, GenerateServerVerifyData(h))),
      ServerHs(TRUE,
               HsMsg(dtlsHandshakeTypeFinished, 3, EmptyBytes, WrongVerifyData)),
      ServerHs(FALSE,
               HsMsg(dtlsHandshakeTypeFinished, 3, EmptyBytes, GenerateServerVerifyData(h))),
      Record(dtlsContentTypeApplicationData, 1, 1, TRUE, TRUE, NoBody),
      Record(dtlsContentTypeHandshake, 0, 0, FALSE, FALSE, NoBody) }

Datagrams(h) ==
    { <<r>> : r \in ServerRecords(h) } \cup
    { <<r1, r2>> : r1 \in ServerRecords(h), r2 \in ServerRecords(h) }

(***************************************************************************)
(* History of the handshake: one event per record written to the open      *)
(* socket, per record ParsePacket accepted and per failed step.            *)
(***************************************************************************)
Ev(ev, rec, content) ==
    [ev |-> ev, Type |-> rec.Type, HsType |-> content.Type,
     Cookie |-> content.Cookie, Enc |-> rec.Enc, Epoch |-> rec.Epoch, Sequence |-> rec.Sequence]

FailEv == Ev("fail", NoRecord, NoBody)

(* net.Conn.Write on the UDP socket; the error of a closed socket is       *)
(* ignored by every caller                                                 *)
ConnWrite(rec) == IF dtls.Connection = "open" THEN Append(sent, rec) ELSE sent

TraceSend(rec) == IF dtls.Connection = "open" THEN Append(trace, Ev("send", rec, rec.Body)) ELSE trace

(* events of the records one datagram made ParsePacket accept *)
RecvEvents(d, h, dg, two) ==
    LET r1 == ParsePacket(d, h, dg[1])
        e1 == IF r1.pkt = "ok" THEN <<Ev("recv", dg[1], r1.content)>> ELSE <<>>
        r2 == ParsePacket(r1.d, r1.h, Second(dg))
        e2 == IF two /\ r1.pkt = "ok" /\ r2.pkt = "ok"
              THEN <<Ev("recv", Second(dg), r2.content)>> ELSE <<>>
    IN e1 \o e2

(***************************************************************************)
(* The steps of processHandshake (part_001:49-67).  Each Send*/Get* of the *)
(* source is one action up to its blocking Connection.Read, and one action *)
(* for the read and the ParsePacket calls that follow it.  After a failed  *)
(* step the goroutine blocks in `successNotify <- false` until DtlsDial    *)
(* receives, and then goes on with the next step: there is no return.      *)
(***************************************************************************)
Alive == hsPC # "panic"

HsUnchanged == UNCHANGED <<writeVars, agentVars, boot, codec, local>>

SeqInc(d) == [d EXCEPT !.ClientSequence = d.ClientSequence + 1]

HsSeqInc(h) == [h EXCEPT !.ClientSequence = (h.ClientSequence + 1) % Uint16]

(* outcome of a read step: where the goroutine goes *)
AfterRead(pkt, okPC, failPC) ==
    IF pkt = "ok" THEN okPC ELSE IF pkt = "panic" THEN "panic" ELSE failPC

(* Connection.Read returned an error: the socket was closed by DtlsDial, *)
(* or the connected UDP socket reported an ICMP error                    *)
ReadError(failPC) ==
    /\ hsPC' = failPC
    /\ trace' = Append(trace, FailEv)
    /\ UNCHANGED <<dtls, handshake, sent>>

(* GetCookie, part_001:172-185: ClientHello with the (empty) cookie *)
GetCookieSend ==
    /\ Alive /\ hsPC = "GetCookie"
    /\ LET m == ToBytes(dtlsHandshakeTypeClientHello, handshake)
           rec == Record(dtlsContentTypeHandshake, dtls.ClientEpoch, dtls.ClientSequence,
                         TRUE, FALSE, m)
       IN /\ sent' = ConnWrite(rec)
          /\ trace' = TraceSend(rec)
    /\ dtls' = SeqInc(dtls)
    /\ handshake' = HsSeqInc(handshake)
    /\ hsPC' = "GetCookieRead"
    /\ UNCHANGED <<dialPC, dialResult>>
    /\ HsUnchanged

(* GetCookie, part_001:186-195: one read, one ParsePacket *)
GetCookieRead ==
    /\ Alive /\ hsPC = "GetCookieRead"
    /\ \/ ReadError("GetCookieFailed")
       \/ /\ dtls.Connection = "open"
          /\ \E dg \in Datagrams(handshake) :
                LET r == ParsePacket(dtls, handshake, dg[1]) IN
                /\ dtls' = r.d
                /\ handshake' = r.h
                /\ hsPC' = AfterRead(r.pkt, "GetSession", "GetCookieFailed")
                /\ trace' = trace \o RecvEvents(dtls, handshake, dg, FALSE)
                              \o (IF r.pkt = "nil" THEN <<FailEv>> ELSE <<>>)
          /\ UNCHANGED sent
    /\ UNCHANGED <<dialPC, dialResult>>
    /\ HsUnchanged

(* GetSession, part_001:199-213: ClientHello again, now appended to Messages *)
GetSessionSend ==
    /\ Alive /\ hsPC = "GetSession"
    /\ LET m == ToBytes(dtlsHandshakeTypeClientHello, handshake)
           rec == Record(dtlsContentTypeHandshake, dtls.ClientEpoch, dtls.ClientSequence,
                         TRUE, FALSE, m)
       IN /\ sent' = ConnWrite(rec)
          /\ trace' = TraceSend(rec)
          /\ handshake' = HsSeqInc([handshake EXCEPT !.Messages = Append(handshake.Messages, m)])
    /\ dtls' = SeqInc(dtls)
    /\ hsPC' = "GetSessionRead"
    /\ UNCHANGED <<dialPC, dialResult>>
    /\ HsUnchanged

(* read + two ParsePacket calls on the one datagram (GetSession 215-228,   *)
(* SendFinished 285-298)                                                   *)
ReadTwo(okPC, failPC) ==
    \/ ReadError(failPC)
    \/ /\ dtls.Connection = "open"
       /\ \E dg \in Datagrams(handshake) :
             LET r == ParseTwo(dtls, handshake, dg) IN
             /\ dtls' = r.d
             /\ handshake' = r.h
             /\ hsPC' = AfterRead(r.pkt, okPC, failPC)
             /\ trace' = trace \o RecvEvents(dtls, handshake, dg, TRUE)
                           \o (IF r.pkt = "nil" THEN <<FailEv>> ELSE <<>>)
       /\ UNCHANGED sent

GetSessionRead ==
    /\ Alive /\ hsPC = "GetSessionRead"
    /\ ReadTwo("SendClientKeyExchange", "GetSessionFailed")
    /\ UNCHANGED <<dialPC, dialResult>>
    /\ HsUnchanged

(* SendClientKeyExchange, part_001:232-247 *)
SendClientKeyExchange ==
    /\ Alive /\ hsPC = "SendClientKeyExchange"
    /\ LET m == ToBytes(dtlsHandshakeTypeClientKeyExchange, handshake)
           rec == Record(dtlsContentTypeHandshake, dtls.ClientEpoch, dtls.ClientSequence,
                         TRUE, FALSE, m)
       IN /\ sent' = ConnWrite(rec)
          /\ trace' = TraceSend(rec)
          /\ handshake' = HsSeqInc([handshake EXCEPT !.Messages = Append(handshake.Messages, m)])
    /\ dtls' = SeqInc(dtls)
    /\ hsPC' = "SendChangeCipherSpec"
    /\ UNCHANGED <<dialPC, dialResult>>
    /\ HsUnchanged

(* SendChangeCipherSpec that keeps counting in the old epoch *)
MutAfterChangeCipherSpec(d) ==
    [d EXCEPT !.ClientSequence = d.ClientSequence + 1,
              !.ClientEncrypt = TRUE]

(* the Dtls fields SendChangeCipherSpec sets after the write, 262-264 *)
AfterChangeCipherSpec(d) ==
    [d EXCEPT !.ClientEpoch = (d.ClientEpoch + 1) % Uint16,
              !.ClientSequence = 0,
              !.ClientEncrypt = TRUE]

(* SendChangeCipherSpec, part_001:255-266 *)
SendChangeCipherSpec ==
    /\ Alive /\ hsPC = "SendChangeCipherSpec"
    /\ LET rec == Record(dtlsContentTypeChangeCipherSpec, dtls.ClientEpoch, dtls.ClientSequence,
                         TRUE, FALSE, NoBody)
       IN /\ sent' = ConnWrite(rec)
          /\ trace' = TraceSend(rec)
    /\ dtls' = AfterChangeCipherSpec(dtls)
    /\ hsPC' = "GenerateSecurityParams"
    /\ UNCHANGED <<handshake, dialPC, dialResult>>
    /\ HsUnchanged

(* GenerateSecurityParams, part_001:101-118 *)
GenerateSecurityParams ==
    /\ Alive /\ hsPC = "GenerateSecurityParams"
    /\ LET master == <<"master secret", handshake.ClientRandom, handshake.ServerRandom>> IN
       /\ handshake' = [handshake EXCEPT !.MasterSecret = master]
       /\ dtls' = [dtls EXCEPT !.Keys = <<"key expansion", master,
                                          handshake.ServerRandom, handshake.ClientRandom>>]
    /\ hsPC' = "SendFinished"
    /\ UNCHANGED <<sent, trace, dialPC, dialResult>>
    /\ HsUnchanged

(* SendFinished, part_001:269-283: the verify data is computed by ToBytes  *)
(* before the Finished is appended to Messages; the record is encrypted    *)
SendFinishedSend ==
    /\ Alive /\ hsPC = "SendFinished"
    /\ LET m == ToBytes(dtlsHandshakeTypeFinished, handshake)
           rec == Record(dtlsContentTypeHandshake, dtls.ClientEpoch, dtls.ClientSequence,
                         TRUE, TRUE, m)
       IN /\ sent' = ConnWrite(rec)
          /\ trace' = TraceSend(rec)
          /\ handshake' = HsSeqInc([handshake EXCEPT !.Messages = Append(handshake.Messages, m)])
    /\ dtls' = SeqInc(dtls)
    /\ hsPC' = "SendFinishedRead"
    /\ UNCHANGED <<dialPC, dialResult>>
    /\ HsUnchanged

SendFinishedRead ==
    /\ Alive /\ hsPC = "SendFinishedRead"
    /\ ReadTwo("NotifyTrue", "SendFinishedFailed")
    /\ UNCHANGED <<dialPC, dialResult>>
    /\ HsUnchanged

(* `successNotify <- false` (part_001:51,54,64) meeting the receive of     *)
(* DtlsDial's select (lwm2m_device_management.go:499); the goroutine then  *)
(* falls through to the next step                                          *)
NextStepAfterFailure(pc) ==
    IF pc = "GetCookieFailed" THEN "GetSession"
    ELSE IF pc = "GetSessionFailed" THEN "SendClientKeyExchange"
    ELSE "NotifyTrue"

NotifyFalse ==
    /\ Alive /\ hsPC \in {"GetCookieFailed", "GetSessionFailed", "SendFinishedFailed"}
    /\ dialPC = "select"
    /\ dialPC' = "gotFalse"
    /\ hsPC' = NextStepAfterFailure(hsPC)
    /\ UNCHANGED <<dtls, handshake, dialResult, sent, trace>>
    /\ HsUnchanged

(* `successNotify <- true` (part_001:66) *)
NotifyTrue ==
    /\ Alive /\ hsPC = "NotifyTrue"
    /\ dialPC = "select"
    /\ dialPC' = "gotTrue"
    /\ hsPC' = "done"
    /\ UNCHANGED <<dtls, handshake, dialResult, sent, trace>>
    /\ HsUnchanged

(* DtlsDial, lwm2m_device_management.go:494-506 *)
DialTimeout ==
    /\ Alive /\ dialPC = "select"
    /\ dtls' = [dtls EXCEPT !.Connection = "closed"]
    /\ dialPC' = "done"
    /\ dialResult' = "timeout"
    /\ UNCHANGED <<handshake, hsPC, sent, trace>>
    /\ HsUnchanged

DialReturnFailure ==
    /\ Alive /\ dialPC = "gotFalse"
    /\ dtls' = [dtls EXCEPT !.Connection = "closed"]
    /\ dialPC' = "done"
    /\ dialResult' = "failed"
    /\ UNCHANGED <<handshake, hsPC, sent, trace>>
    /\ HsUnchanged

DialReturnSuccess ==
    /\ Alive /\ dialPC = "gotTrue"
    /\ dialPC' = "done"
    /\ dialResult' = "ok"
    /\ UNCHANGED <<dtls, handshake, hsPC, sent, trace>>
    /\ HsUnchanged

processHandshake ==
    \/ GetCookieSend \/ GetCookieRead
    \/ GetSessionSend \/ GetSessionRead
    \/ SendClientKeyExchange
    \/ SendChangeCipherSpec
    \/ GenerateSecurityParams
    \/ SendFinishedSend \/ SendFinishedRead
    \/ NotifyFalse \/ NotifyTrue

DtlsDial == DialTimeout \/ DialReturnFailure \/ DialReturnSuccess

(* idle values of the variables a specification does not use *)
WriteIdle ==
    /\ wPC = <<>> /\ wPkt = <<>> /\ wTmp = <<>> /\ wCount = 0

BootIdle == boot = <<>>

CodecIdle == codec = <<>>

LocalIdle == local = <<>>

ObserveIdle ==
    /\ runPC = "off" /\ obsPC = "off" /\ obsTodo = <<>>
    /\ observedInstance = <<>> /\ observedResource = <<>> /\ handler = <<>>

AgentIdle ==
    /\ Connection = "nil" /\ registered = FALSE /\ Location = ""
    /\ coap = <<>> /\ updPC = "off" /\ updCh = "none"
    /\ rtPC = "off" /\ rtMsg = <<>> /\ ghost = <<>>
    /\ ObserveIdle

(* DtlsDial up to `go dtls.processHandshake(ctx, notifyCh)`, 485-493 *)
InitHandshake ==
    /\ dtls = NewDtls
    /\ handshake = NewHandshake
    /\ hsPC = "GetCookie"
    /\ dialPC = "select"
    /\ dialResult = "none"
    /\ sent = <<>>
    /\ trace = <<>>
    /\ WriteIdle /\ BootIdle /\ LocalIdle /\ CodecIdle
    /\ AgentIdle

NextHandshake == processHandshake \/ DtlsDial

SpecHandshake == InitHandshake /\ [][NextHandshake]_vars

(* the same with the scheduler's guarantee that a step which stays         *)
(* possible is taken: a goroutine that can run does run                    *)
SpecHandshakeFair == SpecHandshake /\ WF_vars(NextHandshake)

(***************************************************************************)
(* Claims about the handshake (checked under SpecHandshake)                *)
(***************************************************************************)
IsRecv(e, type, hsType) == e.ev = "recv" /\ e.Type = type /\ e.HsType = hsType

ReceivedEncryptedFinished ==
    \E i \in 1..Len(trace) :
        IsRecv(trace[i], dtlsContentTypeHandshake, dtlsHandshakeTypeFinished) /\ trace[i].Enc

ReceivedChangeCipherSpec ==
    \E i \in 1..Len(trace) : trace[i].ev = "recv" /\ trace[i].Type = dtlsContentTypeChangeCipherSpec

\* C1: DtlsDial returns a connection only if the server's ChangeCipherSpec
\* and encrypted Finished were received and the Finished verify_data equals
\* the locally computed server verify data (Verified = TRUE).
C1_SuccessOnlyIfVerified ==
    dialResult = "ok" =>
        /\ ReceivedChangeCipherSpec
        /\ ReceivedEncryptedFinished
        /\ handshake.Verified

(* the events of a complete handshake, in the order of the state machine *)
Step(e) == <<e.ev, e.Type, e.HsType, e.Cookie # EmptyBytes, e.Enc>>

HandshakeOrder ==
    << <<"send", dtlsContentTypeHandshake, dtlsHandshakeTypeClientHello, FALSE, FALSE>>,
       <<"recv", dtlsContentTypeHandshake, dtlsHandshakeTypeHelloVerifyRequest, TRUE, FALSE>>,
       <<"send", dtlsContentTypeHandshake, dtlsHandshakeTypeClientHello, TRUE, FALSE>>,
       <<"recv", dtlsContentTypeHandshake, dtlsHandshakeTypeServerHello, FALSE, FALSE>>,
       <<"recv", dtlsContentTypeHandshake, dtlsHandshakeTypeServerHelloDone, FALSE, FALSE>>,
       <<"send", dtlsContentTypeHandshake, dtlsHandshakeTypeClientKeyExchange, FALSE, FALSE>>,
       <<"send", dtlsContentTypeChangeCipherSpec, 0, FALSE, FALSE>>,
       <<"send", dtlsContentTypeHandshake, dtlsHandshakeTypeFinished, FALSE, TRUE>>,
       <<"recv", dtlsContentTypeChangeCipherSpec, 0, FALSE, FALSE>>,
       <<"recv", dtlsContentTypeHandshake, dtlsHandshakeTypeFinished, FALSE, TRUE>> >>

\* C2: DtlsDial reports success only after the ten handshake steps happened
\* in the order of the state machine, and once one step has failed no later
\* handshake step is performed (no event follows a failure).
C2_LockstepOrder ==
    /\ dialResult = "ok" => [i \in 1..Len(trace) |-> Step(trace[i])] = HandshakeOrder
    /\ \A i \in 1..Len(trace) : trace[i].ev = "fail" => i = Len(trace)

MessageTypes == [i \in 1..Len(handshake.Messages) |-> handshake.Messages[i].Type]

\* C4: after a successful handshake, Messages is the second ClientHello
\* (with cookie), ServerHello, ServerHelloDone, ClientKeyExchange and the
\* client Finished, in this order, and the client verify data was computed
\* over the first four.
C4_HandshakeMessages ==
    dialResult = "ok" =>
        /\ MessageTypes = << dtlsHandshakeTypeClientHello, dtlsHandshakeTypeServerHello,
                             dtlsHandshakeTypeServerHelloDone, dtlsHandshakeTypeClientKeyExchange,
                             dtlsHandshakeTypeFinished >>
        /\ handshake.Messages[1].Cookie # EmptyBytes
        /\ handshake.Messages[5].Verify =
               <<"client finished", handshake.MasterSecret, SubSeq(handshake.Messages, 1, 4)>>

IsChangeCipherSpec(r) == r.Type = dtlsContentTypeChangeCipherSpec

\* C5: sending the client ChangeCipherSpec increments ClientEpoch by one,
\* resets ClientSequence to 0 and sets ClientEncrypt; the ChangeCipherSpec
\* record carries the old epoch, the record written after it is the
\* encrypted Finished with the new epoch and sequence 0.
C5_ClientChangeCipherSpec ==
    /\ [][ (hsPC = "SendChangeCipherSpec" /\ hsPC' # hsPC) =>
             /\ dtls'.ClientEpoch = dtls.ClientEpoch + 1
             /\ dtls'.ClientSequence = 0
             /\ dtls'.ClientEncrypt
             /\ (dtls.Connection = "open" =>
                    /\ Len(sent') = Len(sent) + 1
                    /\ IsChangeCipherSpec(sent'[Len(sent')])
                    /\ sent'[Len(sent')].Epoch = dtls.ClientEpoch) ]_vars
    /\ [](\A i \in 1..Len(sent) :
            (IsChangeCipherSpec(sent[i]) /\ i < Len(sent)) =>
                /\ sent[i+1].Type = dtlsContentTypeHandshake
                /\ sent[i+1].Body.Type = dtlsHandshakeTypeFinished
                /\ sent[i+1].Enc
                /\ sent[i+1].Epoch = sent[i].Epoch + 1
                /\ sent[i+1].Sequence = 0)

C5_Witness ==
    \E i \in 1..Len(sent) :
        /\ IsChangeCipherSpec(sent[i]) /\ i < Len(sent)
        /\ sent[i+1].Body.Type = dtlsHandshakeTypeFinished
        /\ dtls.ClientEncrypt

\* C6: on receipt of the server's ChangeCipherSpec (ServerEncrypt becomes
\* TRUE) the server epoch is incremented by one and the server sequence is
\* reset to 0.
C6_ServerChangeCipherSpec ==
    [][ (~dtls.ServerEncrypt /\ dtls'.ServerEncrypt) =>
          /\ dtls'.ServerEpoch = dtls.ServerEpoch + 1
          /\ dtls'.ServerSequence = 0 ]_vars

(***************************************************************************)
(* Dtls.Write (lwm2m_device_management.go:523-535) called from the three   *)
(* goroutines that write to one connection: the CoAP receive task          *)
(* (SendResponse), the update task (SendRequest) and the observe task      *)
(* (SendRelatedMessage).  Dtls holds no lock, so the reads and the write   *)
(* of ClientSequence of different tasks interleave:                        *)
(*   WriteBegin    packet := {Epoch: ClientEpoch, Sequence: ClientSequence}*)
(*   WriteEncrypt  encrypt reads ClientEpoch/ClientSequence again for the  *)
(*                 nonce; the record goes to the socket                    *)
(*   WriteIncRead / WriteIncStore   the two halves of ClientSequence++     *)
(***************************************************************************)
Writers == {"receive", "update", "observe"}

MaxWrites == 3

AppData == HsMsg(0, 0, EmptyBytes, EmptyBytes)

(* the Dtls struct DtlsDial returns after a complete handshake: the client *)
(* sent ChangeCipherSpec and one Finished in epoch 1                       *)
EstablishedDtls ==
    [NewDtls EXCEPT !.ClientEpoch = 1, !.ClientSequence = 1,
                    !.Keys = <<"key expansion">>,
                    !.ClientEncrypt = TRUE, !.ServerEncrypt = TRUE]

WriteUnchanged ==
    UNCHANGED <<handshake, hsPC, dialPC, dialResult, trace, agentVars, boot, codec, local>>

WriteBegin(t) ==
    /\ wPC[t] = "idle"
    /\ wCount < MaxWrites
    /\ wCount' = wCount + 1
    /\ wPkt' = [wPkt EXCEPT ![t] = <<dtls.ClientEpoch, dtls.ClientSequence>>]
    /\ wPC' = [wPC EXCEPT ![t] = "encrypt"]
    /\ UNCHANGED <<dtls, sent, wTmp>>
    /\ WriteUnchanged

(* the record Write puts on the wire: header from the packet, nonce from   *)
(* the fields encrypt reads (569-574)                                      *)
WriteRecord(pkt, d) ==
    [Record(dtlsContentTypeApplicationData, pkt[1], pkt[2], TRUE, TRUE, AppData)
        EXCEPT !.Nonce = <<d.ClientEpoch, d.ClientSequence>>]

WriteEncrypt(t) ==
    /\ wPC[t] = "encrypt"
    /\ sent' = ConnWrite(WriteRecord(wPkt[t], dtls))
    /\ wPC' = [wPC EXCEPT ![t] = "incRead"]
    /\ UNCHANGED <<dtls, wPkt, wTmp, wCount>>
    /\ WriteUnchanged

WriteIncRead(t) ==
    /\ wPC[t] = "incRead"
    /\ wTmp' = [wTmp EXCEPT ![t] = dtls.ClientSequence]
    /\ wPC' = [wPC EXCEPT ![t] = "incStore"]
    /\ UNCHANGED <<dtls, sent, wPkt, wCount>>
    /\ WriteUnchanged

WriteIncStore(t) ==
    /\ wPC[t] = "incStore"
    /\ dtls' = [dtls EXCEPT !.ClientSequence = wTmp[t] + 1]
    /\ wPC' = [wPC EXCEPT ![t] = "idle"]
    /\ UNCHANGED <<sent, wPkt, wTmp, wCount>>
    /\ WriteUnchanged

InitWrite ==
    /\ dtls = EstablishedDtls
    /\ handshake = NewHandshake
    /\ hsPC = "done" /\ dialPC = "done" /\ dialResult = "ok"
    /\ sent = <<>> /\ trace = <<>>
    /\ wPC = [t \in Writers |-> "idle"]
    /\ wPkt = [t \in Writers |-> <<0, 0>>]
    /\ wTmp = [t \in Writers |-> 0]
    /\ wCount = 0
    /\ AgentIdle /\ BootIdle /\ LocalIdle /\ CodecIdle

NextWrite ==
    \E t \in Writers :
        WriteBegin(t) \/ WriteEncrypt(t) \/ WriteIncRead(t) \/ WriteIncStore(t)

SpecWrite == InitWrite /\ [][NextWrite]_vars

\* C3: each Write sends one record stamped with the current (ClientEpoch,
\* ClientSequence) and then increments ClientSequence, so no two records
\* encrypted on one connection use the same (epoch, sequence) nonce, also
\* when the receive, update and observe tasks write concurrently.
C3_NonceNeverReused ==
    \A i \in 1..Len(sent) : \A j \in 1..Len(sent) :
        (i # j /\ sent[i].Enc /\ sent[j].Enc) => sent[i].Nonce # sent[j].Nonce

(***************************************************************************)
(* CoAP layer and LwM2M agent                                              *)
(***************************************************************************)
CoapTypeConfirmable == 0
CoapTypeNonConfirmable == 1
CoapTypeAcknowledgement == 2
CoapTypeReset == 3

CoapCodeEmpty == 0
CoapCodePost == 2
CoapCodeCreated == 65
CoapCodeChanged == 68
CoapCodeBadRequest == 128

(* A CoAP message.  Parsable: the datagram has the 4-byte header and the   *)
(* token (ParseMessage returns nil otherwise).  LocationPath: the values   *)
(* of its Location-Path options (option 8), in order.                      *)
CoapMessage(type, code, mid, locationPath) ==
    [Parsable |-> TRUE, Type |-> type, Code |-> code, MessageID |-> mid,
     LocationPath |-> locationPath]

ShortDatagram == [CoapMessage(0, 0, 0, <<>>) EXCEPT !.Parsable = FALSE]

NoMessage == [CoapMessage(0, 0, 0, <<>>) EXCEPT !.Parsable = FALSE, !.Type = -1]

(* bounds of the agent model *)
MaxTicks == 2

MaxDatagrams == 3

(* rand.Intn(65536) in Coap.Initialize: the ends of the range *)
InitialMessageIDs == {0, 65535}

AckMessageIDs == {0, 1, 65535}

LocationPaths == { <<>>, <<"rd">>, <<"rd", "xyz-42">>, <<"rd", "abc-7">>, <<"rd", "xyz-42", "extra">> }

(* what the server can put into an application-data record *)
ServerMessages ==
    { CoapMessage(CoapTypeAcknowledgement, c, m, l) :
        c \in {CoapCodeCreated, CoapCodeChanged, CoapCodeBadRequest},
        m \in AckMessageIDs, l \in LocationPaths }
    \cup { CoapMessage(CoapTypeReset, CoapCodeEmpty, m, <<>>) : m \in AckMessageIDs }
    \cup { CoapMessage(CoapTypeNonConfirmable, CoapCodeChanged, 0, <<>>), ShortDatagram }

(* the records that can arrive on an established connection: protected     *)
(* application data, the same with a MAC that does not verify, and a       *)
(* truncated record                                                        *)
AgentDatagrams ==
    { Record(dtlsContentTypeApplicationData, 1, 1, TRUE, TRUE, m) : m \in ServerMessages }
    \cup { Record(dtlsContentTypeApplicationData, 1, 1, TRUE, FALSE, m) :
             m \in { CoapMessage(CoapTypeAcknowledgement, CoapCodeCreated, i, <<"rd", "xyz-42">>) :
                        i \in AckMessageIDs } }
    \cup { Record(dtlsContentTypeApplicationData, 1, 1, FALSE, TRUE, ShortDatagram) }

NoCoap == [NextMessageID |-> 0, ChInProcess |-> <<>>]

NewGhost ==
    [last |-> "none",            \* what the last Register / Update returned
     regMid |-> -1,              \* message-id of the last Register request
     regAck |-> NoMessage,       \* the ACK that released the last Register
     reqMid |-> -1,              \* message-id of the last request (Register or Update)
     updAck |-> NoMessage,       \* the ACK that released the last Update
     locAtReturn |-> "",         \* Location when the last Register returned
     createdAtReturn |-> NoMessage, \* lastCreated when it returned
     lastCreated |-> NoMessage,  \* last 2.01 ACK with >= 2 Location-Paths handled
     rxN |-> 0,                  \* datagrams read by the receive task
     lastRx |-> NoRecord,        \* the last datagram read
     handled |-> 0,              \* calls of RecvHandler
     ticks |-> 0,                \* ticks of the update ticker
     nObs |-> 0,                 \* observation records allocated
     obsTicks |-> 0,             \* ticks of the observe ticker
     changes |-> 0,              \* changes of a resource value in the store
     reads |-> <<>>,             \* resources the last request had the Handler read
     returned |-> 0]             \* code the Handler returned to the last request

LowerUnchanged ==
    UNCHANGED <<handshake, hsPC, dialPC, dialResult, trace, writeVars, boot, codec, local>>

AgentUnchanged == LowerUnchanged /\ UNCHANGED <<runPC, observeVars>>

(* Dtls.Write (523-535) without interleaving: one record stamped with the *)
(* current epoch and sequence, then ClientSequence++                       *)
DtlsWrite(d, body) ==
    [rec |-> Record(dtlsContentTypeApplicationData, d.ClientEpoch, d.ClientSequence,
                    TRUE, TRUE, body),
     d |-> SeqInc(d)]

(* Coap.SendRequest, inventoryd.go:275-290: the message-id, the new        *)
(* NextMessageID and the pending table with the caller's channel           *)
SendRequest(c, ch) ==
    [mid |-> c.NextMessageID,
     c |-> [NextMessageID |-> (c.NextMessageID + 1) % Uint16,
            ChInProcess |-> [m \in (DOMAIN c.ChInProcess) \cup {c.NextMessageID} |->
                               IF m = c.NextMessageID THEN ch ELSE c.ChInProcess[m]]]]

(* delete(coap.ChInProcess, mid), inventoryd.go:267 *)
DeletePending(c, mid) ==
    [c EXCEPT !.ChInProcess = [m \in (DOMAIN c.ChInProcess) \ {mid} |-> c.ChInProcess[m]]]

(* RegisterDone that stores the first Location-Path segment *)
MutRegisterDone(loc, message) ==
    IF Len(message.LocationPath) >= 1 THEN message.LocationPath[1] ELSE loc

(* Lwm2m.RegisterDone, lwm2m_register.go:107-119: the second Location-Path *)
(* option becomes Location                                                 *)
RegisterDone(loc, message) ==
    IF Len(message.LocationPath) >= 2 THEN message.LocationPath[2] ELSE loc

(* Lwm2m.ReceiveMessage, lwm2m.go:141-164, for the message types the       *)
(* server sends here: the Location afterwards.  UpdateDone does nothing;   *)
(* a Reset finds no observation to remove; other types are ignored.        *)
ReceiveMessage(loc, message) ==
    IF message.Type = CoapTypeAcknowledgement /\ message.Code = CoapCodeCreated
    THEN RegisterDone(loc, message)
    ELSE loc

(* Lwm2m.close that leaves registered as it is *)
MutClose(a) == [a EXCEPT !.Connection = "nil"]

(* Lwm2m.close, lwm2m_register.go:70-74, after Connection.Close() *)
close(a) == [Connection |-> "nil", registered |-> FALSE]

(***************************************************************************)
(* The update task: StartUpdate (lwm2m.go:101-122) calls Register once and *)
(* Update on every tick; Register / connect / Update / close are in        *)
(* lwm2m_register.go.  The task blocks in the select of Register / Update  *)
(* and in `recvStopCh <- true` of Coap.Close.                              *)
(***************************************************************************)
IsCreatedWithLocation(m) ==
    m.Type = CoapTypeAcknowledgement /\ m.Code = CoapCodeCreated /\ Len(m.LocationPath) >= 2

(* connect, 47-63: DtlsDial fails or times out; Register returns the error. *)
(* Connection is nil whenever Register is called (StartUpdate's first call, *)
(* Update's call under Connection == nil), so connect closes nothing.       *)
RegisterConnectFail ==
    /\ updPC = "Register" /\ Connection = "nil"
    /\ updPC' = "idle"
    /\ ghost' = [ghost EXCEPT !.last = "connectFailed"]
    /\ UNCHANGED <<dtls, sent, Connection, registered, Location, coap, updCh, rtPC, rtMsg>>
    /\ AgentUnchanged

(* connect, 58-64: DtlsDial succeeds, coap.Initialize seeds the message-id *)
(* and starts the receive task                                             *)
RegisterConnect ==
    /\ updPC = "Register" /\ Connection = "nil"
    /\ dtls' = EstablishedDtls
    /\ sent' = <<>>
    /\ \E id \in InitialMessageIDs : coap' = [NextMessageID |-> id, ChInProcess |-> <<>>]
    /\ rtPC' = "read"
    /\ rtMsg' = NoMessage
    /\ updPC' = "connected"
    /\ UNCHANGED <<Connection, registered, Location, updCh, ghost>>
    /\ AgentUnchanged

(* connect, 65: lwm2m.Connection = coap *)
ConnectAssign ==
    /\ updPC = "connected"
    /\ Connection' = "coap"
    /\ updPC' = "registerSend"
    /\ UNCHANGED <<dtls, sent, registered, Location, coap, updCh, rtPC, rtMsg, ghost>>
    /\ AgentUnchanged

(* Register, 29-32: SendRequest(POST rd ...) with registerCh *)
RegisterSend ==
    /\ updPC = "registerSend"
    /\ LET r == SendRequest(coap, <<"registerCh", coap.NextMessageID>>)
           w == DtlsWrite(dtls, CoapMessage(CoapTypeConfirmable, CoapCodePost, r.mid, <<>>))
       IN /\ coap' = r.c
          /\ sent' = ConnWrite(w.rec)
          /\ dtls' = w.d
          /\ updCh' = <<"registerCh", r.mid>>
          /\ ghost' = [ghost EXCEPT !.regMid = r.mid, !.regAck = NoMessage, !.reqMid = r.mid]
    /\ updPC' = "registerWait"
    /\ UNCHANGED <<Connection, registered, Location, rtPC, rtMsg>>
    /\ AgentUnchanged

(* Register 34-36 / Update 94-96: ctx.Done is selected, close() is entered *)
WaitTimeout ==
    /\ updPC \in {"registerWait", "updateWait"}
    /\ updPC' = IF updPC = "registerWait" THEN "registerClose" ELSE "updateClose"
    /\ updCh' = "none"
    /\ UNCHANGED <<dtls, sent, Connection, registered, Location, coap, rtPC, rtMsg, ghost>>
    /\ AgentUnchanged

(* Coap.Close (inventoryd.go:236-239), called by Lwm2m.close at 71:        *)
(* `recvStopCh <- true` meets the `<-stopCh` of the receive task's select, *)
(* then the socket is closed                                               *)
CoapClose ==
    /\ updPC \in {"registerClose", "updateClose", "stopClose"}
    /\ rtPC = "read"
    /\ rtPC' = "stopped"
    /\ dtls' = [dtls EXCEPT !.Connection = "closed"]
    /\ updPC' = CASE updPC = "registerClose" -> "registerClosed"
                  [] updPC = "updateClose" -> "updateClosed"
                  [] OTHER -> "stopClosed"
    /\ UNCHANGED <<sent, Connection, registered, Location, coap, updCh, rtMsg, ghost>>
    /\ AgentUnchanged

(* Lwm2m.close, 72-73, and the return of the timeout error (Register 37,   *)
(* Update 97): Connection and registered are cleared                       *)
CloseAfterTimeout ==
    /\ updPC \in {"registerClosed", "updateClosed"}
    /\ LET a == close([Connection |-> Connection, registered |-> registered]) IN
          /\ Connection' = a.Connection
          /\ registered' = a.registered
    /\ ghost' = [ghost EXCEPT !.last = IF updPC = "registerClosed" THEN "registerTimeout"
                                                                   ELSE "updateTimeout"]
    /\ updPC' = "idle"
    /\ UNCHANGED <<dtls, sent, Location, coap, updCh, rtPC, rtMsg>>
    /\ AgentUnchanged

(* Register, 38-43: after `<-registerCh` *)
RegisterReturn ==
    /\ updPC = "registerGot"
    /\ registered' = TRUE
    /\ ghost' = [ghost EXCEPT !.last = "registerOK",
                              !.locAtReturn = Location,
                              !.createdAtReturn = ghost.lastCreated]
    /\ updPC' = "idle"
    /\ UNCHANGED <<dtls, sent, Connection, Location, coap, updCh, rtPC, rtMsg>>
    /\ AgentUnchanged

(* Update, 98-103: after `<-updateCh` *)
UpdateReturn ==
    /\ updPC = "updateGot"
    /\ ghost' = [ghost EXCEPT !.last = "updateOK"]
    /\ updPC' = "idle"
    /\ UNCHANGED <<dtls, sent, Connection, registered, Location, coap, updCh, rtPC, rtMsg>>
    /\ AgentUnchanged

(* a tick of StartUpdate's ticker with Connection == nil: Update calls     *)
(* Register (78-86)                                                        *)
TickRegister ==
    /\ updPC = "idle" /\ ghost.ticks < MaxTicks
    /\ Connection = "nil"
    /\ updPC' = "Register"
    /\ ghost' = [ghost EXCEPT !.ticks = ghost.ticks + 1, !.last = "none"]
    /\ UNCHANGED <<dtls, sent, Connection, registered, Location, coap, updCh, rtPC, rtMsg>>
    /\ AgentUnchanged

(* a tick with a connection: Update sends POST rd/<Location> (88-92) *)
TickUpdate ==
    /\ updPC = "idle" /\ ghost.ticks < MaxTicks
    /\ Connection # "nil"
    /\ LET r == SendRequest(coap, <<"updateCh", coap.NextMessageID>>)
           w == DtlsWrite(dtls, CoapMessage(CoapTypeConfirmable, CoapCodePost, r.mid, <<"rd", Location>>))
       IN /\ coap' = r.c
          /\ sent' = ConnWrite(w.rec)
          /\ dtls' = w.d
          /\ updCh' = <<"updateCh", r.mid>>
          /\ ghost' = [ghost EXCEPT !.ticks = ghost.ticks + 1, !.last = "none",
                                    !.reqMid = r.mid, !.updAck = NoMessage]
    /\ updPC' = "updateWait"
    /\ UNCHANGED <<Connection, registered, Location, rtPC, rtMsg>>
    /\ AgentUnchanged

(***************************************************************************)
(* The receive task: Coap.ReadCoapMessage (inventoryd.go:243-270).         *)
(***************************************************************************)
(* the receive task that takes the next datagram before the fulfilment of *)
(* the ACK it holds has completed                                          *)
MutRtAtRead(pc) == pc \in {"read", "fulfil"}

(* the head of the loop (244-256): the task is in its select, having       *)
(* finished the previous datagram                                          *)
RtAtRead(pc) == pc = "read"

(* One datagram: Dtls.Read (509-521) -> ParsePacket; on nil Read returns    *)
(* (0, err), the error is dropped, ParseMessage sees an empty slice and the *)
(* loop continues.  Otherwise ParseMessage, then RecvHandler, and for an    *)
(* ACK the task goes on to `ch <- 1`.                                       *)
RtReceive ==
    /\ RtAtRead(rtPC) /\ dtls.Connection = "open"
    /\ ghost.rxN < MaxDatagrams
    /\ \E rec \in AgentDatagrams :
         LET r == ParsePacket(dtls, handshake, rec)
             message == r.content
             deliver == r.pkt = "ok" /\ message.Parsable
         IN /\ dtls' = r.d
            /\ IF deliver
               THEN /\ Location' = ReceiveMessage(Location, message)
                    /\ rtMsg' = message
                    /\ rtPC' = IF message.Type = CoapTypeAcknowledgement THEN "fulfil" ELSE "read"
               ELSE UNCHANGED <<Location, rtMsg, rtPC>>
            /\ ghost' = [ghost EXCEPT !.rxN = ghost.rxN + 1,
                                      !.lastRx = rec,
                                      !.handled = IF deliver THEN ghost.handled + 1 ELSE ghost.handled,
                                      !.lastCreated = IF deliver /\ IsCreatedWithLocation(message)
                                                      THEN message ELSE ghost.lastCreated]
    /\ UNCHANGED <<sent, Connection, registered, coap, updPC, updCh>>
    /\ AgentUnchanged

(* `ch <- 1` (265-266) meeting the `<-registerCh` / `<-updateCh` of the    *)
(* waiting owner.  With no entry for the message-id ch is a nil channel,   *)
(* and with an owner that has left its select nobody receives: the send    *)
(* then never completes.                                                   *)
Fulfil ==
    /\ rtPC = "fulfil"
    /\ rtMsg.MessageID \in DOMAIN coap.ChInProcess
    /\ updPC \in {"registerWait", "updateWait"}
    /\ coap.ChInProcess[rtMsg.MessageID] = updCh
    /\ rtPC' = "delete"
    /\ updPC' = IF updPC = "registerWait" THEN "registerGot" ELSE "updateGot"
    /\ updCh' = "none"
    /\ ghost' = IF updPC = "registerWait" THEN [ghost EXCEPT !.regAck = rtMsg]
                                           ELSE [ghost EXCEPT !.updAck = rtMsg]
    /\ UNCHANGED <<dtls, sent, Connection, registered, Location, coap, rtMsg>>
    /\ AgentUnchanged

(* delete(coap.ChInProcess, message.MessageID), 267 *)
RtDelete ==
    /\ rtPC = "delete"
    /\ coap' = DeletePending(coap, rtMsg.MessageID)
    /\ rtPC' = "read"
    /\ UNCHANGED <<dtls, sent, Connection, registered, Location, updPC, updCh, rtMsg, ghost>>
    /\ AgentUnchanged

(* Lwm2m.Initialize (lwm2m.go:70-86) and the start of StartUpdate *)
Init ==
    /\ dtls = [NewDtls EXCEPT !.Connection = "closed"]
    /\ handshake = NewHandshake
    /\ hsPC = "done" /\ dialPC = "done" /\ dialResult = "none"
    /\ sent = <<>> /\ trace = <<>>
    /\ WriteIdle /\ BootIdle /\ LocalIdle /\ CodecIdle
    /\ Connection = "nil"
    /\ registered = FALSE
    /\ Location = ""
    /\ coap = NoCoap
    /\ updPC = "Register"
    /\ updCh = "none"
    /\ rtPC = "off"
    /\ rtMsg = NoMessage
    /\ ghost = NewGhost
    /\ ObserveIdle

Next ==
    \/ RegisterConnectFail \/ RegisterConnect \/ ConnectAssign \/ RegisterSend
    \/ WaitTimeout \/ CoapClose \/ CloseAfterTimeout
    \/ RegisterReturn \/ UpdateReturn
    \/ TickRegister \/ TickUpdate
    \/ RtReceive \/ Fulfil \/ RtDelete

Spec == Init /\ [][Next]_vars

(***************************************************************************)
(* Inventoryd.Run (inventoryd.go:83-111) and the stop channels.  Run       *)
(* starts StartUpdate and StartObserving, waits for a termination signal,  *)
(* then hands `true` to updateStopCh and to observeStopCh (both            *)
(* unbuffered) and returns.                                                *)
(***************************************************************************)
(* datagrams the receive task reads in SpecRun *)
MaxRunDatagrams == 2

(* an unrecovered panic in one goroutine ends the process: every other    *)
(* task stops where it is                                                  *)
Killed(pc) == IF pc = "off" THEN "off" ELSE "killed"

(* Run, 105: `<-sigCh` *)
Signal ==
    /\ runPC = "wait"
    /\ runPC' = "stopUpdate"
    /\ UNCHANGED <<dtls, sent, Connection, registered, Location, coap, updPC, updCh,
                   rtPC, rtMsg, ghost, observeVars>>
    /\ LowerUnchanged

(* Run, 107: `updateStopCh <- true` meets `<-stopCh` in the select of      *)
(* StartUpdate (lwm2m.go:117), which calls lwm2m.close() (118)             *)
StopUpdate ==
    /\ runPC = "stopUpdate" /\ updPC = "idle"
    /\ Connection # "nil"
    /\ runPC' = "stopObserve"
    /\ updPC' = "stopClose"
    /\ UNCHANGED <<dtls, sent, Connection, registered, Location, coap, updCh,
                   rtPC, rtMsg, ghost, observeVars>>
    /\ LowerUnchanged

(* the same with Connection == nil: close() calls Coap.Close on a nil      *)
(* *Coap, whose read of coap.recvStopCh (inventoryd.go:237) is a nil       *)
(* pointer dereference                                                     *)
StopUpdateNil ==
    /\ runPC = "stopUpdate" /\ updPC = "idle"
    /\ Connection = "nil"
    /\ updPC' = "panic"
    /\ runPC' = Killed(runPC) /\ obsPC' = Killed(obsPC) /\ rtPC' = Killed(rtPC)
    /\ UNCHANGED <<dtls, sent, Connection, registered, Location, coap, updCh,
                   rtMsg, ghost, obsTodo, observedInstance, observedResource, handler>>
    /\ LowerUnchanged

(* StartUpdate, 118-119: the rest of close() after Coap.Close, and return *)
StopReturn ==
    /\ updPC = "stopClosed"
    /\ LET a == close([Connection |-> Connection, registered |-> registered]) IN
          /\ Connection' = a.Connection
          /\ registered' = a.registered
    /\ updPC' = "exited"
    /\ UNCHANGED <<dtls, sent, Location, coap, updCh, rtPC, rtMsg, ghost>>
    /\ AgentUnchanged

(* Run, 108-110: `observeStopCh <- true` meets `<-stopCh` in the select of *)
(* StartObserving (lwm2m.go:134), which returns; Run returns nil           *)
StopObserve ==
    /\ runPC = "stopObserve" /\ obsPC = "idle"
    /\ runPC' = "returned"
    /\ obsPC' = "exited"
    /\ UNCHANGED <<dtls, sent, Connection, registered, Location, coap, updPC, updCh,
                   rtPC, rtMsg, ghost, obsTodo, observedInstance, observedResource, handler>>
    /\ LowerUnchanged

(* Run after CheckSecurityParams: both tasks started, no observation yet *)
InitRun ==
    /\ dtls = [NewDtls EXCEPT !.Connection = "closed"]
    /\ handshake = NewHandshake
    /\ hsPC = "done" /\ dialPC = "done" /\ dialResult = "none"
    /\ sent = <<>> /\ trace = <<>>
    /\ WriteIdle /\ BootIdle /\ LocalIdle /\ CodecIdle
    /\ Connection = "nil"
    /\ registered = FALSE
    /\ Location = ""
    /\ coap = NoCoap
    /\ updPC = "Register"
    /\ updCh = "none"
    /\ rtPC = "off"
    /\ rtMsg = NoMessage
    /\ ghost = [NewGhost EXCEPT !.rxN = MaxDatagrams - MaxRunDatagrams]
    /\ runPC = "wait"
    /\ obsPC = "idle"
    /\ obsTodo = <<>>
    /\ observedInstance = <<>> /\ observedResource = <<>>
    /\ handler = <<>>

NextRun ==
    \/ RegisterConnectFail \/ RegisterConnect \/ ConnectAssign \/ RegisterSend
    \/ WaitTimeout \/ CoapClose \/ CloseAfterTimeout
    \/ RegisterReturn \/ UpdateReturn
    \/ TickRegister \/ TickUpdate
    \/ RtReceive \/ Fulfil \/ RtDelete
    \/ Signal \/ StopUpdate \/ StopUpdateNil \/ StopReturn \/ StopObserve

SpecRun == InitRun /\ [][NextRun]_vars

(***************************************************************************)
(* Device management: server requests and observations                     *)
(* (lwm2m_device_management.go:14-337).  The resource store holds object 3 *)
(* with instance 0 and the resources 1 and 9 (readable) and 4 (not         *)
(* readable); the value of resource 9 changes over time, and "fail" stands *)
(* for a ReadResource that does not return 2.05.                           *)
(***************************************************************************)
CoapCodeGet == 1
CoapCodeContent == 69
CoapCodeNotFound == 132
CoapCodeNotAllowed == 133

coapObserveRegister == 0

coapContentFormatLwm2mTLV == 11542

(* bound of the observe model: datagrams received, ticks of the observe    *)
(* ticker and changes of the store, together                               *)
MaxObserveEvents == 4

ResourceIDs == <<1, 4, 9>>

Readable(resourceID) == resourceID \in {1, 9}

ResourceValues == {"45", "43", "fail"}

(* Lwm2m.findInstance, lwm2m.go:251-289 *)
findInstance(path) == Len(path) >= 2 /\ path[1] = 3 /\ path[2] = 0

(* Lwm2m.findResource, lwm2m.go:292-350 *)
findResource(path) ==
    /\ findInstance(path) /\ Len(path) = 3
    /\ \E i \in 1..Len(ResourceIDs) : ResourceIDs[i] = path[3]

(* Lwm2mTLV of one resource; the value is kept as the string read *)
TLV(resourceID, value) == [ID |-> resourceID, Value |-> value]

(* a GET of the server: CON, code 0.01, Uri-Path options, with or without  *)
(* an Observe option                                                       *)
CoapRequest(mid, token, path, observe) ==
    [Parsable |-> TRUE, Type |-> CoapTypeConfirmable, Code |-> CoapCodeGet,
     MessageID |-> mid, LocationPath |-> <<>>,
     Token |-> token, Path |-> path, IsObserve |-> observe]

(* a message the agent sends: the ACK of SendResponse (293-304) and the    *)
(* NON of SendRelatedMessage (309-322)                                     *)
CoapOut(type, code, mid, token, format, observe, payload) ==
    [Parsable |-> TRUE, Type |-> type, Code |-> code, MessageID |-> mid,
     LocationPath |-> <<>>, Token |-> token,
     ContentFormat |-> format, Observe |-> observe, Payload |-> payload]

(* the Observe option of a notification: the counter in the fewest bytes,  *)
(* big-endian (NotifyInstance 99-107, NotifyResource 144-152)              *)
ObserveCountBuf(n) ==
    IF n <= 255 THEN <<n>>
    ELSE IF n <= 65535 THEN <<n \div 256, n % 256>>
    ELSE IF n <= 16777215 THEN <<n \div 65536, (n \div 256) % 256, n % 256>>
    ELSE <<n \div 16777216, (n \div 65536) % 256, (n \div 256) % 256, n % 256>>

(* Lwm2mObservedResource, part_000:289-295.  id stands for the identity of *)
(* the record the slices point to.  observeCount is a uint32 counted up    *)
(* from 0 by one per notification; the values here stay far below 2^32.    *)
ObservedResource(id, token, resourceID, lastValue) ==
    [id |-> id, token |-> token, messageID |-> 0, observeCount |-> 0,
     resource |-> resourceID, lastValue |-> lastValue]

(* Lwm2mObservedInstance, part_000:278-284 *)
ObservedInstance(id, token, resources) ==
    [id |-> id, token |-> token, messageID |-> 0, observeCount |-> 0,
     resources |-> resources]

(* the readable resources of the instance whose read returns 2.05, in the  *)
(* order of ListResourceIDs (processReadInstance 241-262)                  *)
ReadableNow(h) ==
    LET Test(resourceID) == Readable(resourceID) /\ h[resourceID] # "fail"
    IN SelectSeq(ResourceIDs, Test)

(* processReadInstance that leaves the Observe option out of the answer to *)
(* an observed GET                                                         *)
MutProcessReadInstance(oi, or, h, message, id) ==
    IF ~findInstance(message.Path)
    THEN [code |-> CoapCodeNotFound, format |-> 0, observe |-> <<>>, payload |-> <<>>,
          oi |-> oi, or |-> or, reads |-> <<>>]
    ELSE LET ids == ReadableNow(h)
             payload == [i \in 1..Len(ids) |-> TLV(ids[i], h[ids[i]])]
             resources == [i \in 1..Len(ids) |->
                             ObservedResource(0, <<>>, ids[i], h[ids[i]])]
         IN [code |-> CoapCodeContent, format |-> coapContentFormatLwm2mTLV,
             observe |-> <<>>, payload |-> payload,
             oi |-> IF message.IsObserve
                    THEN Append(oi, ObservedInstance(id, message.Token, resources))
                    ELSE oi,
             or |-> or, reads |-> SelectSeq(ResourceIDs, Readable)]

(* Lwm2m.processReadInstance, 215-279: the response code, its Observe      *)
(* option, its payload, the observation sequences afterwards and the       *)
(* resources read through the Handler                                      *)
processReadInstance(oi, or, h, message, id) ==
    IF ~findInstance(message.Path)
    THEN [code |-> CoapCodeNotFound, format |-> 0, observe |-> <<>>, payload |-> <<>>,
          oi |-> oi, or |-> or, reads |-> <<>>]
    ELSE LET ids == ReadableNow(h)
             payload == [i \in 1..Len(ids) |-> TLV(ids[i], h[ids[i]])]
             resources == [i \in 1..Len(ids) |->
                             ObservedResource(0, <<>>, ids[i], h[ids[i]])]
         IN IF message.IsObserve
            THEN [code |-> CoapCodeContent, format |-> coapContentFormatLwm2mTLV,
                  observe |-> <<coapObserveRegister>>, payload |-> payload,
                  oi |-> Append(oi, ObservedInstance(id, message.Token, resources)),
                  or |-> or, reads |-> SelectSeq(ResourceIDs, Readable)]
            ELSE [code |-> CoapCodeContent, format |-> coapContentFormatLwm2mTLV,
                  observe |-> <<>>, payload |-> payload, oi |-> oi, or |-> or,
                  reads |-> SelectSeq(ResourceIDs, Readable)]

(* processReadResource that registers the observation before it reads the  *)
(* resource, so that an observed GET answered 4.05 leaves a record behind  *)
MutProcessReadResource(oi, or, h, message, id) ==
    LET resourceID == message.Path[3] IN
    IF ~findResource(message.Path)
    THEN [code |-> CoapCodeNotFound, format |-> 0, observe |-> <<>>, payload |-> <<>>,
          oi |-> oi, or |-> or, reads |-> <<>>]
    ELSE IF ~Readable(resourceID) \/ h[resourceID] = "fail"
    THEN [code |-> CoapCodeNotAllowed, format |-> 0, observe |-> <<>>, payload |-> <<>>,
          oi |-> oi,
          or |-> IF message.IsObserve
                 THEN Append(or, ObservedResource(id, message.Token, resourceID, ""))
                 ELSE or,
          reads |-> IF Readable(resourceID) THEN <<resourceID>> ELSE <<>>]
    ELSE IF message.IsObserve
    THEN [code |-> CoapCodeContent, format |-> coapContentFormatLwm2mTLV,
          observe |-> <<coapObserveRegister>>,
          payload |-> <<TLV(resourceID, h[resourceID])>>,
          oi |-> oi,
          or |-> Append(or, ObservedResource(id, message.Token, resourceID, h[resourceID])),
          reads |-> <<resourceID>>]
    ELSE [code |-> CoapCodeContent, format |-> coapContentFormatLwm2mTLV,
          observe |-> <<>>, payload |-> <<TLV(resourceID, h[resourceID])>>,
          oi |-> oi, or |-> or, reads |-> <<resourceID>>]

(* Lwm2m.processReadResource, 283-337 *)
processReadResource(oi, or, h, message, id) ==
    LET resourceID == message.Path[3] IN
    IF ~findResource(message.Path)
    THEN [code |-> CoapCodeNotFound, format |-> 0, observe |-> <<>>, payload |-> <<>>,
          oi |-> oi, or |-> or, reads |-> <<>>]
    ELSE IF ~Readable(resourceID) \/ h[resourceID] = "fail"
    THEN [code |-> CoapCodeNotAllowed, format |-> 0, observe |-> <<>>, payload |-> <<>>,
          oi |-> oi, or |-> or,
          reads |-> IF Readable(resourceID) THEN <<resourceID>> ELSE <<>>]
    ELSE IF message.IsObserve
    THEN [code |-> CoapCodeContent, format |-> coapContentFormatLwm2mTLV,
          observe |-> <<coapObserveRegister>>,
          payload |-> <<TLV(resourceID, h[resourceID])>>,
          oi |-> oi,
          or |-> Append(or, ObservedResource(id, message.Token, resourceID, h[resourceID])),
          reads |-> <<resourceID>>]
    ELSE [code |-> CoapCodeContent, format |-> coapContentFormatLwm2mTLV,
          observe |-> <<>>, payload |-> <<TLV(resourceID, h[resourceID])>>,
          oi |-> oi, or |-> or, reads |-> <<resourceID>>]

(* CoapMessage.extractResourceID, lwm2m.go:169-186: the number of Uri-Path *)
(* options and whether they fail to parse (a fourth option, or an option   *)
(* that is not an integer: a segment below 0 stands for such a text)       *)
extractResourceID(path) ==
    [idCount |-> Len(path),
     err |-> Len(path) > 3 \/ \E i \in 1..Len(path) : path[i] < 0]

(* Lwm2m.ReadRequest, 161-179: a path that does not parse is not answered  *)
(* (code 0); two path segments name an instance, three a resource; any     *)
(* other number is not answered either                                     *)
ReadRequest(oi, or, h, message, id) ==
    IF extractResourceID(message.Path).err
    THEN [code |-> 0, format |-> 0, observe |-> <<>>, payload |-> <<>>, oi |-> oi, or |-> or,
          reads |-> <<>>]
    ELSE IF Len(message.Path) = 2 THEN processReadInstance(oi, or, h, message, id)
    ELSE IF Len(message.Path) = 3 THEN processReadResource(oi, or, h, message, id)
    ELSE [code |-> 0, format |-> 0, observe |-> <<>>, payload |-> <<>>, oi |-> oi, or |-> or,
          reads |-> <<>>]

(* the copy ObserveDeregister makes of a slice without index i (39-42) *)
DeleteAt(list, i) == [j \in 1..(Len(list) - 1) |-> IF j < i THEN list[j] ELSE list[j + 1]]

(* foundIndex of the loops at 31-36 and 46-51: the last index whose record *)
(* has the message-id, 0 when there is none                                *)
FoundIndex(list, mid) ==
    LET found == {i \in 1..Len(list) : list[i].messageID = mid}
    IN IF found = {} THEN 0 ELSE CHOOSE i \in found : \A j \in found : j <= i

(* Lwm2m.ObserveDeregister, 29-60 *)
ObserveDeregister(oi, or, mid) ==
    IF FoundIndex(oi, mid) > 0 THEN [oi |-> DeleteAt(oi, FoundIndex(oi, mid)), or |-> or]
    ELSE IF FoundIndex(or, mid) > 0 THEN [oi |-> oi, or |-> DeleteAt(or, FoundIndex(or, mid))]
    ELSE [oi |-> oi, or |-> or]

(* a write through the record the slices share: the entry with the         *)
(* record's identity, if the sequence still holds it                       *)
Store(list, o) == [i \in 1..Len(list) |-> IF list[i].id = o.id THEN o ELSE list[i]]

(* Lwm2m.NotifyResource, 117-153, up to observeCount++: whether a          *)
(* notification is due, its Observe option and payload, the record after   *)
NotifyResource(o, h) ==
    IF ~Readable(o.resource) \/ h[o.resource] = "fail" \/ h[o.resource] = o.lastValue
    THEN [send |-> FALSE, observe |-> <<>>, payload |-> <<>>, o |-> o]
    ELSE [send |-> TRUE,
          observe |-> ObserveCountBuf(o.observeCount),
          payload |-> <<TLV(o.resource, h[o.resource])>>,
          o |-> [o EXCEPT !.lastValue = h[o.resource],
                          !.observeCount = o.observeCount + 1]]

(* NotifyInstance that puts every readable resource of the instance into   *)
(* the notification once one of them has changed                           *)
MutNotifyInstance(o, h) ==
    LET Changed(r) == /\ Readable(r.resource) /\ h[r.resource] # "fail"
                      /\ h[r.resource] # r.lastValue
        Read(r) == Readable(r.resource) /\ h[r.resource] # "fail"
        changed == SelectSeq(o.resources, Changed)
        read == SelectSeq(o.resources, Read)
        resources == [i \in 1..Len(o.resources) |->
                        IF Read(o.resources[i])
                        THEN [o.resources[i] EXCEPT !.lastValue = h[o.resources[i].resource]]
                        ELSE o.resources[i]]
    IN IF changed = <<>>
       THEN [send |-> FALSE, observe |-> <<>>, payload |-> <<>>, o |-> o]
       ELSE [send |-> TRUE,
             observe |-> ObserveCountBuf(o.observeCount),
             payload |-> [i \in 1..Len(read) |-> TLV(read[i].resource, h[read[i].resource])],
             o |-> [o EXCEPT !.resources = resources,
                             !.observeCount = o.observeCount + 1]]

(* Lwm2m.NotifyInstance, 64-108, up to observeCount++ *)
NotifyInstance(o, h) ==
    LET Changed(r) == /\ Readable(r.resource) /\ h[r.resource] # "fail"
                      /\ h[r.resource] # r.lastValue
        changed == SelectSeq(o.resources, Changed)
        resources == [i \in 1..Len(o.resources) |->
                        IF Changed(o.resources[i])
                        THEN [o.resources[i] EXCEPT !.lastValue = h[o.resources[i].resource]]
                        ELSE o.resources[i]]
    IN IF changed = <<>>
       THEN [send |-> FALSE, observe |-> <<>>, payload |-> <<>>, o |-> o]
       ELSE [send |-> TRUE,
             observe |-> ObserveCountBuf(o.observeCount),
             payload |-> [i \in 1..Len(changed) |->
                            TLV(changed[i].resource, h[changed[i].resource])],
             o |-> [o EXCEPT !.resources = resources,
                             !.observeCount = o.observeCount + 1]]

(* what the server sends to a registered agent *)
RequestPaths == { <<3, 0>>, <<3, 0, 9>>, <<3, 0, 4>>, <<3, 0, 7>> }

(* the server takes a new token for every observe request *)
ServerGets(g) ==
    { CoapRequest(7, <<"token", g.nObs + 1>>, path, TRUE) : path \in RequestPaths }
    \cup { CoapRequest(7, <<"token", 0>>, path, FALSE) : path \in RequestPaths }

(* an RST names the message-id the agent allocated last, or 0 *)
ServerResets(c) ==
    { CoapMessage(CoapTypeReset, CoapCodeEmpty, m, <<>>) :
        m \in {0, (c.NextMessageID + Uint16 - 1) % Uint16} }

(* what is left of the bound *)
ObserveBudget(g) == g.rxN + g.obsTicks + g.changes < MaxObserveEvents

(* bookkeeping of one datagram read and handled *)
Received(g, message) ==
    [g EXCEPT !.rxN = g.rxN + 1,
              !.lastRx = Record(dtlsContentTypeApplicationData, 1, 1, TRUE, TRUE, message),
              !.handled = g.handled + 1,
              !.reads = <<>>,
              !.returned = 0]

(* ReadCoapMessage 243-263 with ReceiveMessage 149-154 for a GET: the      *)
(* request is read, ReadRequest answers it through lwm2m.Connection        *)
RtGet ==
    /\ RtAtRead(rtPC) /\ dtls.Connection = "open"
    /\ ObserveBudget(ghost)
    /\ Connection # "nil"
    /\ \E message \in ServerGets(ghost) :
         LET r == ReadRequest(observedInstance, observedResource, handler, message, ghost.nObs + 1)
             w == DtlsWrite(dtls, CoapOut(CoapTypeAcknowledgement, r.code, message.MessageID,
                                          message.Token, r.format, r.observe, r.payload))
         IN /\ observedInstance' = r.oi
            /\ observedResource' = r.or
            /\ sent' = IF r.code = 0 THEN sent ELSE ConnWrite(w.rec)
            /\ dtls' = IF r.code = 0 THEN dtls ELSE w.d
            /\ rtMsg' = message
            /\ ghost' = [Received(ghost, message) EXCEPT
                           !.reads = r.reads,
                           !.nObs = IF <<r.oi, r.or>> # <<observedInstance, observedResource>>
                                    THEN ghost.nObs + 1 ELSE ghost.nObs]
    /\ UNCHANGED <<Connection, registered, Location, coap, updPC, updCh, rtPC,
                   runPC, obsPC, obsTodo, handler>>
    /\ LowerUnchanged

(* ReadCoapMessage with ReceiveMessage 160-163 for an RST *)
RtReset ==
    /\ RtAtRead(rtPC) /\ dtls.Connection = "open"
    /\ ObserveBudget(ghost)
    /\ \E message \in ServerResets(coap) :
         LET r == ObserveDeregister(observedInstance, observedResource, message.MessageID)
         IN /\ observedInstance' = r.oi
            /\ observedResource' = r.or
            /\ rtMsg' = message
            /\ ghost' = Received(ghost, message)
    /\ UNCHANGED <<dtls, sent, Connection, registered, Location, coap, updPC, updCh, rtPC,
                   runPC, obsPC, obsTodo, handler>>
    /\ LowerUnchanged

(* the store behind the handler changes the value of resource 9 *)
HandlerChange ==
    /\ ObserveBudget(ghost)
    /\ obsPC \notin {"killed", "panic"}
    /\ \E v \in ResourceValues \ {handler[9]} : handler' = [handler EXCEPT ![9] = v]
    /\ ghost' = [ghost EXCEPT !.changes = ghost.changes + 1]
    /\ UNCHANGED <<dtls, sent, Connection, registered, Location, coap, updPC, updCh,
                   rtPC, rtMsg, runPC, obsPC, obsTodo, observedInstance, observedResource>>
    /\ LowerUnchanged

(***************************************************************************)
(* The observe task: StartObserving (lwm2m.go:126-138) calls Observe       *)
(* (lwm2m_device_management.go:14-24) on every tick.  Each range loop      *)
(* walks the slice as it is when the loop starts.                          *)
(***************************************************************************)
(* where Observe goes from the start of the second loop *)
ResourceLoop(or) ==
    IF or # <<>> THEN [pc |-> "notifyResource", todo |-> or]
    ELSE [pc |-> "idle", todo |-> <<>>]

(* where Observe goes after the guard at 15 *)
InstanceLoop(oi, or) ==
    IF oi # <<>> THEN [pc |-> "notifyInstance", todo |-> oi] ELSE ResourceLoop(or)

(* Observe, 15: the tick does something only with a connection and after  *)
(* Register                                                                *)
ObserveGuard(c, r) == c # "nil" /\ r

(* a tick of the observe ticker: Observe, 14-18 *)
ObserveTick ==
    /\ obsPC = "idle" /\ ObserveBudget(ghost)
    /\ LET l == IF ObserveGuard(Connection, registered)
                THEN InstanceLoop(observedInstance, observedResource)
                ELSE [pc |-> "idle", todo |-> <<>>]
       IN obsPC' = l.pc /\ obsTodo' = l.todo
    /\ ghost' = [ghost EXCEPT !.obsTicks = ghost.obsTicks + 1]
    /\ UNCHANGED <<dtls, sent, Connection, registered, Location, coap, updPC, updCh,
                   rtPC, rtMsg, runPC, observedInstance, observedResource, handler>>
    /\ LowerUnchanged

(* Coap.SendRelatedMessage, inventoryd.go:309-322, called at 112 / 157:    *)
(* the NON with the observation's token, the next message-id               *)
SendRelatedMessage(c, d, token, n) ==
    [mid |-> c.NextMessageID,
     c |-> [c EXCEPT !.NextMessageID = (c.NextMessageID + 1) % Uint16],
     w |-> DtlsWrite(d, CoapOut(CoapTypeNonConfirmable, CoapCodeContent, c.NextMessageID,
                                token, coapContentFormatLwm2mTLV, n.observe, n.payload))]

(* one turn of a range loop of Observe: NotifyInstance / NotifyResource    *)
(* for the next observation, with lwm2m.Connection non-nil at the send     *)
Notify ==
    /\ obsPC \in {"notifyInstance", "notifyResource"}
    /\ LET o == Head(obsTodo)
           n == IF obsPC = "notifyInstance" THEN NotifyInstance(o, handler)
                                            ELSE NotifyResource(o, handler)
           m == SendRelatedMessage(coap, dtls, o.token, n)
           o2 == IF n.send THEN [n.o EXCEPT !.messageID = m.mid] ELSE n.o
           oi == IF obsPC = "notifyInstance" THEN Store(observedInstance, o2)
                                             ELSE observedInstance
           or == IF obsPC = "notifyResource" THEN Store(observedResource, o2)
                                             ELSE observedResource
           l == IF Tail(obsTodo) # <<>> THEN [pc |-> obsPC, todo |-> Tail(obsTodo)]
                ELSE IF obsPC = "notifyInstance" THEN ResourceLoop(or)
                ELSE [pc |-> "idle", todo |-> <<>>]
       IN /\ ~n.send \/ Connection # "nil"
          /\ observedInstance' = oi
          /\ observedResource' = or
          /\ coap' = IF n.send THEN m.c ELSE coap
          /\ sent' = IF n.send THEN ConnWrite(m.w.rec) ELSE sent
          /\ dtls' = IF n.send THEN m.w.d ELSE dtls
          /\ obsPC' = l.pc /\ obsTodo' = l.todo
    /\ UNCHANGED <<Connection, registered, Location, updPC, updCh, rtPC, rtMsg, ghost,
                   runPC, handler>>
    /\ LowerUnchanged

(* the same when close() has set lwm2m.Connection to nil since the guard:  *)
(* lastValue and observeCount are written, then SendRelatedMessage on a    *)
(* nil *Coap is a nil pointer dereference                                  *)
NotifyNil ==
    /\ obsPC \in {"notifyInstance", "notifyResource"}
    /\ Connection = "nil"
    /\ LET o == Head(obsTodo)
           n == IF obsPC = "notifyInstance" THEN NotifyInstance(o, handler)
                                            ELSE NotifyResource(o, handler)
       IN /\ n.send
          /\ observedInstance' = IF obsPC = "notifyInstance" THEN Store(observedInstance, n.o)
                                                             ELSE observedInstance
          /\ observedResource' = IF obsPC = "notifyResource" THEN Store(observedResource, n.o)
                                                             ELSE observedResource
    /\ obsPC' = "panic"
    /\ updPC' = Killed(updPC) /\ rtPC' = Killed(rtPC) /\ runPC' = Killed(runPC)
    /\ UNCHANGED <<dtls, sent, Connection, registered, Location, coap, updCh, rtMsg, ghost,
                   obsTodo, handler>>
    /\ LowerUnchanged

(* a registered agent: Register has returned, no observation yet *)
InitObserve ==
    /\ dtls = [EstablishedDtls EXCEPT !.ClientSequence = 2]
    /\ handshake = NewHandshake
    /\ hsPC = "done" /\ dialPC = "done" /\ dialResult = "none"
    /\ sent = <<>> /\ trace = <<>>
    /\ WriteIdle /\ BootIdle /\ LocalIdle /\ CodecIdle
    /\ Connection = "coap"
    /\ registered = TRUE
    /\ Location = "xyz-42"
    /\ \E id \in InitialMessageIDs : coap = [NextMessageID |-> id, ChInProcess |-> <<>>]
    /\ updPC = "idle"
    /\ updCh = "none"
    /\ rtPC = "read"
    /\ rtMsg = NoMessage
    /\ ghost = [NewGhost EXCEPT !.last = "registerOK"]
    /\ runPC = "off"
    /\ obsPC = "idle"
    /\ obsTodo = <<>>
    /\ observedInstance = <<>> /\ observedResource = <<>>
    /\ handler = [resourceID \in {1, 9} |-> IF resourceID = 1 THEN "m" ELSE "45"]

(* The server does not answer the Update of this agent: the update task    *)
(* sends it, times out and tears the connection down.                      *)
NextObserve ==
    \/ RtGet \/ RtReset
    \/ HandlerChange
    \/ ObserveTick \/ Notify \/ NotifyNil
    \/ TickUpdate \/ WaitTimeout \/ CoapClose \/ CloseAfterTimeout

SpecObserve == InitObserve /\ [][NextObserve]_vars

(***************************************************************************)
(* Dispatch of the server's requests (lwm2m.go:141-164,                    *)
(* lwm2m_device_management.go:161-211 and 338-406) for a registered agent. *)
(* The Handler is an interface: the code it returns when it fails is an    *)
(* input.  Resource 1 is readable and writable, resource 4 executable,     *)
(* resource 9 readable; resource 7 has neither a file nor a definition.    *)
(***************************************************************************)
CoapCodePut == 3

(* bound of the dispatch model: requests handled *)
MaxRequests == 3

Writable(resourceID) == resourceID = 1

Excutable(resourceID) == resourceID = 4

(* findResourceDefinitionByIDs, part_000:347-354 *)
Defined(resourceID) == resourceID \in {1, 4, 9}

(* codes with which the Handler fails *)
FailureCodes == {CoapCodeNotAllowed, CoapCodeBadRequest}

(* Lwm2m.processWriteResource, 342-381; hc is what WriteResource returns.  *)
(* code 0: nothing is sent; returned 0: the Handler was not called         *)
processWriteResource(h, message, hc, value) ==
    LET resourceID == message.Path[3] IN
    IF ~findInstance(message.Path)
    THEN [code |-> CoapCodeNotFound, h |-> h, returned |-> 0]
    ELSE IF ~findResource(message.Path) /\ ~Defined(resourceID)
    THEN [code |-> 0, h |-> h, returned |-> 0]
    ELSE IF ~Writable(resourceID)
    THEN [code |-> CoapCodeNotAllowed, h |-> h, returned |-> 0]
    ELSE IF hc # CoapCodeChanged
    THEN [code |-> hc, h |-> h, returned |-> hc]
    ELSE [code |-> CoapCodeChanged, h |-> [h EXCEPT ![resourceID] = value],
          returned |-> hc]

(* Lwm2m.processExecuteResource, 385-406; hc is what ExecuteResource       *)
(* returns                                                                 *)
processExecuteResource(h, message, hc) ==
    IF ~findResource(message.Path)
    THEN [code |-> CoapCodeNotFound, h |-> h, returned |-> 0]
    ELSE IF ~Excutable(message.Path[3])
    THEN [code |-> CoapCodeNotAllowed, h |-> h, returned |-> 0]
    ELSE [code |-> hc, h |-> h, returned |-> hc]

(* Lwm2m.WriteRequest, 181-194 *)
WriteRequest(h, message, hc, value) ==
    IF extractResourceID(message.Path).err \/ Len(message.Path) # 3
    THEN [code |-> 0, h |-> h, returned |-> 0]
    ELSE processWriteResource(h, message, hc, value)

(* Lwm2m.ExecuteRequest, 197-210 *)
ExecuteRequest(h, message, hc) ==
    IF extractResourceID(message.Path).err \/ Len(message.Path) # 3
    THEN [code |-> 0, h |-> h, returned |-> 0]
    ELSE processExecuteResource(h, message, hc)

(* paths of the requests: instance, resources 9, 4, 1 and 7, a path of     *)
(* four segments and a path with a segment that is not an integer          *)
DispatchPaths ==
    { <<3, 0>>, <<3, 0, 9>>, <<3, 0, 4>>, <<3, 0, 1>>, <<3, 0, 7>>,
      <<3, 0, 9, 1>>, <<3, -1, 9>> }

(* a confirmable request of the server with the given method code *)
ServerRequests(code) ==
    { [CoapRequest(7, <<"token", 0>>, path, FALSE) EXCEPT !.Code = code] :
        path \in DispatchPaths }

(* the ACK of SendResponse for a request without content *)
Response(message, code) ==
    CoapOut(CoapTypeAcknowledgement, code, message.MessageID, message.Token, 0, <<>>, <<>>)

(* ReceiveMessage 149-154, GET: ReadRequest; when the read of resource 9   *)
(* fails the Handler returns hc                                            *)
RtRead ==
    /\ RtAtRead(rtPC) /\ dtls.Connection = "open" /\ Connection # "nil"
    /\ ghost.rxN < MaxRequests
    /\ \E message \in ServerRequests(CoapCodeGet), hc \in FailureCodes :
         LET r == ReadRequest(observedInstance, observedResource, handler, message,
                              ghost.nObs + 1)
             w == DtlsWrite(dtls, CoapOut(CoapTypeAcknowledgement, r.code, message.MessageID,
                                          message.Token, r.format, r.observe, r.payload))
             returned == IF r.reads = <<>> THEN 0
                         ELSE IF Len(message.Path) = 3 /\ handler[message.Path[3]] = "fail"
                         THEN hc ELSE CoapCodeContent
         IN /\ sent' = IF r.code = 0 THEN sent ELSE ConnWrite(w.rec)
            /\ dtls' = IF r.code = 0 THEN dtls ELSE w.d
            /\ rtMsg' = message
            /\ ghost' = [Received(ghost, message) EXCEPT !.reads = r.reads,
                                                         !.returned = returned]
    /\ UNCHANGED <<Connection, registered, Location, coap, updPC, updCh, rtPC,
                   runPC, observeVars>>
    /\ LowerUnchanged

(* ReceiveMessage 155-156, PUT: WriteRequest *)
RtWrite ==
    /\ RtAtRead(rtPC) /\ dtls.Connection = "open" /\ Connection # "nil"
    /\ ghost.rxN < MaxRequests
    /\ \E message \in ServerRequests(CoapCodePut),
          hc \in FailureCodes \cup {CoapCodeChanged} :
         LET r == WriteRequest(handler, message, hc, "n")
             w == DtlsWrite(dtls, Response(message, r.code))
         IN /\ sent' = IF r.code = 0 THEN sent ELSE ConnWrite(w.rec)
            /\ dtls' = IF r.code = 0 THEN dtls ELSE w.d
            /\ handler' = r.h
            /\ rtMsg' = message
            /\ ghost' = [Received(ghost, message) EXCEPT !.returned = r.returned]
    /\ UNCHANGED <<Connection, registered, Location, coap, updPC, updCh, rtPC,
                   runPC, obsPC, obsTodo, observedInstance, observedResource>>
    /\ LowerUnchanged

(* ReceiveMessage 157-158, POST: ExecuteRequest *)
RtExecute ==
    /\ RtAtRead(rtPC) /\ dtls.Connection = "open" /\ Connection # "nil"
    /\ ghost.rxN < MaxRequests
    /\ \E message \in ServerRequests(CoapCodePost),
          hc \in FailureCodes \cup {CoapCodeChanged} :
         LET r == ExecuteRequest(handler, message, hc)
             w == DtlsWrite(dtls, Response(message, r.code))
         IN /\ sent' = IF r.code = 0 THEN sent ELSE ConnWrite(w.rec)
            /\ dtls' = IF r.code = 0 THEN dtls ELSE w.d
            /\ handler' = r.h
            /\ rtMsg' = message
            /\ ghost' = [Received(ghost, message) EXCEPT !.returned = r.returned]
    /\ UNCHANGED <<Connection, registered, Location, coap, updPC, updCh, rtPC,
                   runPC, obsPC, obsTodo, observedInstance, observedResource>>
    /\ LowerUnchanged

NextDispatch == RtRead \/ RtWrite \/ RtExecute \/ HandlerChange

SpecDispatch == InitObserve /\ [][NextDispatch]_vars

(***************************************************************************)
(* The bootstrap agent (part_003): Bootstrap on a clear CoAP/UDP socket,   *)
(* the receive task of its Coap with BootstrapReceiveMessage as handler.   *)
(* The model starts after the assignments of Bootstrap (25-35): nothing    *)
(* can arrive on the socket before the request has left it.                *)
(***************************************************************************)
CoapCodeDelete == 4
CoapCodeDeleted == 66

lwm2mObjectIDSecurity == 0
lwm2mObjectIDServer == 1

lwm2mTLVTypeResouce == 3

(* bounds of the bootstrap model: datagrams that arrive, datagrams the     *)
(* socket holds unread                                                     *)
MaxBootDatagrams == 2

MaxInbox == 1

(* the value a goroutine leaves when it panics *)
Panicked == -1

(* Lwm2mTLV, part_000:13-19 *)
Lwm2mTLV(typeOfID, id, length, value) ==
    [TypeOfID |-> typeOfID, ID |-> id, Length |-> length, Value |-> value]

(* Lwm2mTLV.Marshal, part_000:30-56 *)
Marshal(tlv) ==
    LET idBit == IF tlv.ID <= 255 THEN 0 ELSE 32
        idBytes == IF tlv.ID <= 255 THEN <<tlv.ID>>
                   ELSE <<tlv.ID \div 256, tlv.ID % 256>>
        lenBits == IF tlv.Length <= 7 THEN tlv.Length
                   ELSE IF tlv.Length <= 255 THEN 8
                   ELSE IF tlv.Length >= 65535 THEN 16
                   ELSE 24
        lenBytes == IF tlv.Length <= 7 THEN <<>>
                    ELSE IF tlv.Length <= 255 THEN <<tlv.Length>>
                    ELSE IF tlv.Length >= 65535
                    THEN <<(tlv.Length \div 256) % 256, tlv.Length % 256>>
                    ELSE <<(tlv.Length \div 65536) % 256, (tlv.Length \div 256) % 256,
                           tlv.Length % 256>>
    IN <<((tlv.TypeOfID * 64) % 256) + idBit + lenBits>> \o idBytes \o lenBytes \o tlv.Value

(* big-endian value of the bytes raw[from+1 .. from+n] *)
BigEndian(raw, from, n) ==
    IF n = 0 THEN 0
    ELSE IF n = 1 THEN raw[from + 1]
    ELSE IF n = 2 THEN raw[from + 1] * 256 + raw[from + 2]
    ELSE raw[from + 1] * 65536 + raw[from + 2] * 256 + raw[from + 3]

(* Lwm2mTLV.Unmarshal, part_000:59-110: n is the number of bytes consumed, *)
(* -1 when raw does not hold a whole TLV                                   *)
Unmarshal(raw) ==
    LET length == Len(raw)
        NoTLV == [n |-> -1, tlv |-> Lwm2mTLV(0, 0, 0, <<>>)]
    IN IF length < 1 THEN NoTLV
       ELSE LET wide == (raw[1] \div 32) % 2 = 1
                afterID == IF wide THEN 3 ELSE 2
                lengthType == (raw[1] \div 8) % 4
                afterLength == afterID + lengthType
            IN IF length < afterID \/ length < afterLength THEN NoTLV
               ELSE LET id == IF wide THEN raw[2] * 256 + raw[3] ELSE raw[2]
                        len == IF lengthType = 0 THEN raw[1] % 8
                               ELSE BigEndian(raw, afterID, lengthType)
                    IN IF length < afterLength + len THEN NoTLV
                       ELSE [n |-> afterLength + len,
                             tlv |-> Lwm2mTLV((raw[1] \div 64) % 4, id, len,
                                              SubSeq(raw, afterLength + 1, afterLength + len))]

(* lwm2m.definitions: the objects Security and Server, each with the       *)
(* resources 0 and 1; the resources of Security are not writable           *)
ObjectDefinitions ==
    [o \in {lwm2mObjectIDSecurity, lwm2mObjectIDServer} |->
        [r \in {0, 1} |-> [Writable |-> o = lwm2mObjectIDServer]]]

(* a confirmable request of the bootstrap server *)
BootRequest(code, mid, path, payload) ==
    [Parsable |-> TRUE, Type |-> CoapTypeConfirmable, Code |-> code, MessageID |-> mid,
     LocationPath |-> <<>>, Token |-> <<"token", mid>>, Path |-> path,
     Payload |-> payload]

(* the Bootstrap-Request: POST /bs?ep=<name> (requestBootStrap 62-66) *)
BootstrapRequest(mid) ==
    [BootRequest(CoapCodePost, mid, <<"bs">>, <<>>) EXCEPT !.Token = <<"token", "rand">>]

Resource(id) == Marshal(Lwm2mTLV(lwm2mTLVTypeResouce, id, 1, <<97 + id>>))

(* payloads of a bootstrap PUT: no TLV, one, two in either order, a TLV of *)
(* a resource without definition after a defined one, a truncated TLV      *)
(* after a whole one                                                       *)
BootPayloads ==
    { <<>>, Resource(0), Resource(0) \o Resource(1), Resource(1) \o Resource(0),
      Resource(0) \o Resource(7) \o Resource(1), Resource(1) \o <<193, 0>> }

(* paths of a bootstrap PUT: Server, an object without definition, a path *)
(* with a segment that is not an integer; Security is <<0, 0>>             *)
BootPaths == { <<1, 2>>, <<9, 0>>, <<1, -1>> }

(* what the bootstrap server can send *)
BootDatagrams(c) ==
    { CoapMessage(CoapTypeAcknowledgement, code, mid, <<>>) :
        code \in {CoapCodeChanged, CoapCodeBadRequest},
        mid \in {(c.NextMessageID + 65535) % Uint16, c.NextMessageID} }
    \cup { BootRequest(CoapCodePut, 21, <<0, 0>>, payload) : payload \in BootPayloads }
    \cup { BootRequest(CoapCodePut, 21, path, Resource(0) \o Resource(1)) :
             path \in BootPaths }
    \cup { BootRequest(CoapCodePost, 22, <<>>, <<>>),
           BootRequest(CoapCodeDelete, 23, <<>>, <<>>),
           BootRequest(CoapCodeDelete, 24, <<3>>, <<>>),
           BootRequest(CoapCodeGet, 25, <<3, 0>>, <<>>),
           ShortDatagram }

(* the store behind the Handler: the paths of its instances and resources *)
InitialStore == { <<0, 0>>, <<0, 0, 0>>, <<1, 0>>, <<1, 0, 1>>, <<3, 0>>, <<3, 0, 9>> }

NewBoot ==
    [pc |-> "request",          \* position of Bootstrap / requestBootStrap
     conn |-> "open",           \* the UDP socket of net.Dial (25)
     inbox |-> <<>>,            \* datagrams the socket holds, not yet read
     store |-> InitialStore,
     calls |-> <<>>,            \* Handler calls of the last request, in order
     returned |-> 0,            \* code the last of these calls returned
     arrived |-> 0,             \* datagrams that have arrived
     ackArrived |-> FALSE,      \* the ACK of the request arrived while Bootstrap waited
     finishArrived |-> FALSE,   \* a Finish POST arrived while Bootstrap waited
     finishHandled |-> FALSE]   \* processBootstrapFinishRequest was entered

(* a Handler call, as the Handler sees it *)
Call(op, o, i, r) == [op |-> op, objectID |-> o, instanceID |-> i, ID |-> r]

(* conn.Write on the clear socket *)
UdpWrite(body) == Append(sent, [Body |-> body])

(* Handler.DeleteObject (part_002:22-31 for the file store): ok is whether *)
(* the removal succeeded                                                   *)
DeleteObject(store, o, ok) ==
    IF ok THEN { p \in store : p[1] # o } ELSE store

(* processBootstrapWrite, 108-129: the loop over the TLVs of the payload.  *)
(* n counts the WriteResource calls; the call number failAt returns hc.    *)
(* code: what is sent, Panicked for the nil dereference at 120 / 121 when  *)
(* the object or the resource of a TLV has no definition.                  *)
RECURSIVE WriteLoop(_, _, _, _, _, _)
WriteLoop(o, i, payload, n, failAt, hc) ==
    LET u == Unmarshal(payload) IN
    IF u.n = -1
    THEN [calls |-> <<>>, written |-> {}, code |-> CoapCodeChanged]
    ELSE IF o \notin DOMAIN ObjectDefinitions \/ u.tlv.ID \notin DOMAIN ObjectDefinitions[o]
    THEN [calls |-> <<>>, written |-> {}, code |-> Panicked]
    ELSE IF n = failAt
    THEN [calls |-> <<Call("WriteResource", o, i, u.tlv.ID)>>, written |-> {}, code |-> hc]
    ELSE LET rest == WriteLoop(o, i, SubSeq(payload, u.n + 1, Len(payload)), n + 1,
                               failAt, hc)
         IN [calls |-> <<Call("WriteResource", o, i, u.tlv.ID)>> \o rest.calls,
             written |-> {<<o, i, u.tlv.ID>>} \cup rest.written,
             code |-> rest.code]

(* processBootstrapWrite, 101-132; cc is what CreateInstance returns *)
processBootstrapWrite(store, o, i, message, cc, failAt, hc) ==
    IF cc # CoapCodeCreated
    THEN [calls |-> <<Call("CreateInstance", o, i, -1)>>, store |-> store, code |-> cc,
          returned |-> cc]
    ELSE LET w == WriteLoop(o, i, message.Payload, 1, failAt, hc) IN
         [calls |-> <<Call("CreateInstance", o, i, -1)>> \o w.calls,
          store |-> store \cup {<<o, i>>} \cup w.written,
          code |-> w.code,
          returned |-> IF w.calls = <<>> THEN cc
                       ELSE IF w.code \in FailureCodes THEN w.code
                       ELSE CoapCodeChanged]

(* the resource ids of the whole TLVs at the head of a payload, in order   *)
(* (the decoding of 111-119 alone)                                         *)
RECURSIVE PayloadIDs(_)
PayloadIDs(payload) ==
    LET u == Unmarshal(payload) IN
    IF u.n = -1 THEN <<>>
    ELSE <<u.tlv.ID>> \o PayloadIDs(SubSeq(payload, u.n + 1, Len(payload)))

(* BootstrapReceiveMessage 85-87: the error of extractResourceID is        *)
(* dropped, its zero ids are used                                          *)
BootstrapIDs(path) ==
    IF extractResourceID(path).err THEN <<0, 0>>
    ELSE <<IF Len(path) >= 1 THEN path[1] ELSE 0, IF Len(path) >= 2 THEN path[2] ELSE 0>>


BootUnchanged ==
    UNCHANGED <<dtls, handshake, hsPC, dialPC, dialResult, trace, writeVars,
                Connection, registered, Location, updPC, updCh, ghost, runPC, observeVars,
                codec, local>>

(* a panic in the receive task ends the process *)
BootAlive == rtPC # "panic"

BootWaiting(b) == b.pc \in {"requestWait", "finishWait"}

(* the receive task cannot take a step: nothing to read, or one of its     *)
(* channel sends has no receiver                                           *)
RtBlocked ==
    \/ rtPC = "read" /\ boot.inbox = <<>>
    \/ rtPC = "fulfil" /\ ~(rtMsg.MessageID \in DOMAIN coap.ChInProcess
                            /\ boot.pc = "requestWait")
    \/ rtPC = "finish" /\ boot.pc # "finishWait"

(* requestBootStrap, 62-66: SendRequest with requestCh *)
BsSendRequest ==
    /\ BootAlive /\ boot.pc = "request"
    /\ LET r == SendRequest(coap, "requestCh") IN
          /\ coap' = r.c
          /\ sent' = UdpWrite(BootstrapRequest(r.mid))
    /\ boot' = [boot EXCEPT !.pc = "requestWait"]
    /\ UNCHANGED <<rtPC, rtMsg>>
    /\ BootUnchanged

(* a datagram of the server reaches the socket *)
BsArrive ==
    /\ BootAlive /\ boot.pc # "request" /\ boot.conn = "open"
    /\ boot.arrived < MaxBootDatagrams /\ Len(boot.inbox) < MaxInbox
    /\ \E m \in BootDatagrams(coap) :
         boot' = [boot EXCEPT
                    !.inbox = Append(boot.inbox, m),
                    !.arrived = boot.arrived + 1,
                    !.ackArrived = boot.ackArrived
                        \/ (/\ BootWaiting(boot) /\ m.Parsable
                            /\ m.Type = CoapTypeAcknowledgement
                            /\ m.MessageID = (coap.NextMessageID + 65535) % Uint16),
                    !.finishArrived = boot.finishArrived
                        \/ (/\ BootWaiting(boot) /\ m.Parsable
                            /\ m.Type = CoapTypeConfirmable /\ m.Code = CoapCodePost)]
    /\ UNCHANGED <<coap, sent, rtPC, rtMsg>>
    /\ BootUnchanged

(* ReadCoapMessage 257-262 and BootstrapReceiveMessage 77-94: a datagram   *)
(* that does not parse, or a message the handler has no case for           *)
BsReadOther ==
    /\ BootAlive /\ rtPC = "read" /\ boot.inbox # <<>>
    /\ LET m == Head(boot.inbox) IN
          /\ \/ ~m.Parsable
             \/ m.Type \notin {CoapTypeAcknowledgement, CoapTypeConfirmable}
             \/ /\ m.Type = CoapTypeConfirmable
                /\ m.Code \notin {CoapCodePut, CoapCodePost, CoapCodeDelete}
          /\ rtMsg' = IF m.Parsable THEN m ELSE rtMsg
    /\ boot' = [boot EXCEPT !.inbox = Tail(boot.inbox)]
    /\ UNCHANGED <<coap, sent, rtPC>>
    /\ BootUnchanged

(* an ACK: BootstrapReceiveMessage 78-82 logs, ReadCoapMessage goes on to  *)
(* `ch <- 1` (264-266)                                                     *)
BsReadAck ==
    /\ BootAlive /\ rtPC = "read" /\ boot.inbox # <<>>
    /\ LET m == Head(boot.inbox) IN
          /\ m.Parsable /\ m.Type = CoapTypeAcknowledgement
          /\ rtMsg' = m
    /\ rtPC' = "fulfil"
    /\ boot' = [boot EXCEPT !.inbox = Tail(boot.inbox)]
    /\ UNCHANGED <<coap, sent>>
    /\ BootUnchanged

(* CON PUT, 85-87: processBootstrapWrite *)
BsReadPut ==
    /\ BootAlive /\ rtPC = "read" /\ boot.inbox # <<>>
    /\ LET m == Head(boot.inbox) IN
          /\ m.Parsable /\ m.Type = CoapTypeConfirmable /\ m.Code = CoapCodePut
          /\ \E cc \in {CoapCodeCreated, CoapCodeNotAllowed}, failAt \in 0..2,
                hc \in FailureCodes :
               LET ids == BootstrapIDs(m.Path)
                   r == processBootstrapWrite(boot.store, ids[1], ids[2], m, cc, failAt, hc)
               IN /\ boot' = [boot EXCEPT !.inbox = Tail(boot.inbox),
                                          !.store = r.store,
                                          !.calls = r.calls,
                                          !.returned = r.returned]
                  /\ sent' = IF r.code = Panicked THEN sent ELSE UdpWrite(Response(m, r.code))
                  /\ rtPC' = IF r.code = Panicked THEN "panic" ELSE "read"
          /\ rtMsg' = m
    /\ UNCHANGED coap
    /\ BootUnchanged

(* CON POST, 88-89: processBootstrapFinishRequest sends 2.04 (143) and     *)
(* goes on to `lwm2m.finishNotify <- 1` (144)                              *)
BsReadFinish ==
    /\ BootAlive /\ rtPC = "read" /\ boot.inbox # <<>>
    /\ LET m == Head(boot.inbox) IN
          /\ m.Parsable /\ m.Type = CoapTypeConfirmable /\ m.Code = CoapCodePost
          /\ sent' = UdpWrite(Response(m, CoapCodeChanged))
          /\ rtMsg' = m
    /\ rtPC' = "finish"
    /\ boot' = [boot EXCEPT !.inbox = Tail(boot.inbox), !.calls = <<>>,
                            !.returned = 0, !.finishHandled = TRUE]
    /\ UNCHANGED coap
    /\ BootUnchanged

(* processBootstrapDeleteRequest with two more DeleteObject calls, for the *)
(* object of the request's path                                            *)
MutProcessBootstrapDeleteRequest(store, message, ok0, ok1) ==
    LET o == IF Len(message.Path) >= 1 THEN message.Path[1] ELSE 3 IN
    [calls |-> <<Call("DeleteObject", lwm2mObjectIDSecurity, -1, -1),
                 Call("DeleteObject", lwm2mObjectIDServer, -1, -1),
                 Call("DeleteObject", o, -1, -1)>>,
     store |-> DeleteObject(DeleteObject(DeleteObject(store, lwm2mObjectIDSecurity, ok0),
                                         lwm2mObjectIDServer, ok1), o, TRUE),
     code |-> CoapCodeDeleted]

(* processBootstrapDeleteRequest, 155-159; ok0 and ok1: whether the two    *)
(* removals succeed (their codes are not looked at)                        *)
processBootstrapDeleteRequest(store, message, ok0, ok1) ==
    [calls |-> <<Call("DeleteObject", lwm2mObjectIDSecurity, -1, -1),
                 Call("DeleteObject", lwm2mObjectIDServer, -1, -1)>>,
     store |-> DeleteObject(DeleteObject(store, lwm2mObjectIDSecurity, ok0),
                            lwm2mObjectIDServer, ok1),
     code |-> CoapCodeDeleted]

(* CON DELETE, 90-91 *)
BsReadDelete ==
    /\ BootAlive /\ rtPC = "read" /\ boot.inbox # <<>>
    /\ LET m == Head(boot.inbox) IN
          /\ m.Parsable /\ m.Type = CoapTypeConfirmable /\ m.Code = CoapCodeDelete
          /\ \E ok0 \in BOOLEAN, ok1 \in BOOLEAN :
               LET r == processBootstrapDeleteRequest(boot.store, m, ok0, ok1) IN
                  /\ boot' = [boot EXCEPT !.inbox = Tail(boot.inbox),
                                          !.store = r.store,
                                          !.calls = r.calls,
                                          !.returned = 0]
                  /\ sent' = UdpWrite(Response(m, r.code))
          /\ rtMsg' = m
    /\ UNCHANGED <<coap, rtPC>>
    /\ BootUnchanged

(* `ch <- 1` (inventoryd.go:265-266) meeting `<-requestCh` (part_003:71);  *)
(* requestBootStrap and then Bootstrap go on to the select at 44.  With no *)
(* entry for the message-id ch is nil, and after requestBootStrap has left *)
(* its select nobody receives: the send then never completes.              *)
BsFulfil ==
    /\ BootAlive /\ rtPC = "fulfil"
    /\ rtMsg.MessageID \in DOMAIN coap.ChInProcess
    /\ boot.pc = "requestWait"
    /\ rtPC' = "delete"
    /\ boot' = [boot EXCEPT !.pc = "finishWait"]
    /\ UNCHANGED <<coap, sent, rtMsg>>
    /\ BootUnchanged

(* `lwm2m.finishNotify <- 1` (144) meeting `<-lwm2m.finishNotify` (48):    *)
(* Bootstrap returns nil (52); the socket and the receive task stay        *)
BsFinishNotify ==
    /\ BootAlive /\ rtPC = "finish"
    /\ boot.pc = "finishWait"
    /\ rtPC' = "read"
    /\ boot' = [boot EXCEPT !.pc = "returnedOK"]
    /\ UNCHANGED <<coap, sent, rtMsg>>
    /\ BootUnchanged

(* ctx.Done at 68 or at 45: the timeout error is returned (70, 47).  The   *)
(* deadline is long against the steps of the tasks: it passes only when    *)
(* the receive task cannot take a step.                                    *)
BsTimeout ==
    /\ BootAlive /\ BootWaiting(boot)
    /\ RtBlocked
    /\ boot' = [boot EXCEPT !.pc = "returnedTimeout"]
    /\ UNCHANGED <<coap, sent, rtPC, rtMsg>>
    /\ BootUnchanged

InitBootstrap ==
    /\ dtls = [NewDtls EXCEPT !.Connection = "closed"]
    /\ handshake = NewHandshake
    /\ hsPC = "done" /\ dialPC = "done" /\ dialResult = "none"
    /\ sent = <<>> /\ trace = <<>>
    /\ WriteIdle
    /\ Connection = "nil" /\ registered = FALSE /\ Location = ""
    /\ \E id \in InitialMessageIDs : coap = [NextMessageID |-> id, ChInProcess |-> <<>>]
    /\ updPC = "off" /\ updCh = "none"
    /\ rtPC = "read"
    /\ rtMsg = NoMessage
    /\ ghost = NewGhost
    /\ ObserveIdle
    /\ boot = NewBoot
    /\ CodecIdle /\ LocalIdle

NextBootstrap ==
    \/ BsSendRequest \/ BsArrive
    \/ BsReadOther \/ BsReadAck \/ BsReadPut \/ BsReadFinish \/ BsReadDelete
    \/ BsFulfil \/ RtDelete \/ BsFinishNotify
    \/ BsTimeout

SpecBootstrap == InitBootstrap /\ [][NextBootstrap]_vars

(***************************************************************************)
(* Conversion of Integer resource values (part_000:133-149 and 179-195).   *)
(* A decimal string is a sequence of characters.  TLC's integers are 32    *)
(* bits wide: the inputs are the values of that range, which the 1, 2 and  *)
(* 4 byte encodings cover.                                                 *)
(***************************************************************************)
DigitChars == <<"0", "1", "2", "3", "4", "5", "6", "7", "8", "9">>

(* the digits of n <= 0, most significant first, none for 0 *)
RECURSIVE NegDigits(_)
NegDigits(n) ==
    IF n = 0 THEN <<>>
    ELSE LET d == (10 - (n % 10)) % 10 IN
         NegDigits((n + d) \div 10) \o <<DigitChars[d + 1]>>

(* the digits of n >= 0 *)
RECURSIVE PosDigits(_)
PosDigits(n) ==
    IF n = 0 THEN <<>>
    ELSE PosDigits(n \div 10) \o <<DigitChars[(n % 10) + 1]>>

(* strconv.Itoa / strconv.FormatInt(n, 10) *)
FormatInt(n) ==
    IF n = 0 THEN <<"0">>
    ELSE IF n < 0 THEN <<"-">> \o NegDigits(n)
    ELSE PosDigits(n)

DigitOf(c) == CHOOSE d \in 0..9 : DigitChars[d + 1] = c

(* the value of a digit string, added up with the given sign *)
RECURSIVE ParseDigits(_, _, _)
ParseDigits(str, acc, sign) ==
    IF str = <<>> THEN acc
    ELSE ParseDigits(Tail(str), acc * 10 + sign * DigitOf(Head(str)), sign)

(* strconv.ParseInt(str, 10, 64) of a well-formed decimal string *)
ParseInt(str) ==
    IF Head(str) = "-" THEN ParseDigits(Tail(str), 0, -1)
    ELSE ParseDigits(str, 0, 1)

(* byte number k (0 is the least significant) of the two's complement of   *)
(* num: (byte)(num >> (8 * k))                                             *)
ByteOf(num, k) ==
    IF k >= 4 THEN (IF num < 0 THEN 255 ELSE 0)
    ELSE (num \div (256 ^ k)) % 256

(* binary.BigEndian.PutUintN(ret, (uintN)(num)) for N = 8 * n *)
PutUint(num, n) == [j \in 1..n |-> ByteOf(num, n - j)]

(* convertStringToTLVValue, 179-195, resource type Integer *)
convertStringToTLVValue(str) ==
    LET num == ParseInt(str) IN
    IF num < 128 /\ num >= -128 THEN <<ByteOf(num, 0)>>
    ELSE IF num < 32768 /\ num >= -32768 THEN PutUint(num, 2)
    ELSE IF num <= 2147483647 /\ num >= -2147483647 - 1 THEN PutUint(num, 4)
    ELSE PutUint(num, 8)

(* (int16)(...) and (int32)(...) of a big-endian unsigned value: the top   *)
(* byte carries the sign                                                   *)
Signed(buf) ==
    LET top == IF buf[1] >= 128 THEN buf[1] - 256 ELSE buf[1] IN
    IF Len(buf) = 2 THEN top * 256 + buf[2]
    ELSE top * 16777216 + buf[2] * 65536 + buf[3] * 256 + buf[4]

(* convertTLVValueToString, 133-149, resource type Integer; for 8 bytes    *)
(* the value is the one of the low four when the high four extend its sign *)
convertTLVValueToString(buf) ==
    IF Len(buf) = 1 THEN FormatInt(buf[1])
    ELSE IF Len(buf) = 2 THEN FormatInt(Signed(buf))
    ELSE IF Len(buf) = 4 THEN FormatInt(Signed(buf))
    ELSE IF Len(buf) = 8 THEN FormatInt(Signed(SubSeq(buf, 5, 8)))
    ELSE <<>>

(* bound of the inputs: the integers up to MaxSmall around 0 and around    *)
(* each change of width                                                    *)
MaxSmall == 3

Near(n) == (n - MaxSmall)..(n + MaxSmall)

IntegerInputs ==
    Near(0) \cup Near(-128) \cup Near(128) \cup Near(256) \cup Near(-32768)
    \cup Near(32768) \cup Near(65536) \cup Near(300) \cup Near(70000)
    \cup { 2147483647 - k : k \in 0..MaxSmall }
    \cup { (k - 2147483647) - 1 : k \in 0..MaxSmall }

CodecUnchanged ==
    UNCHANGED <<dtls, handshake, hsPC, dialPC, dialResult, sent, trace, writeVars,
                agentVars, boot, local>>

(* the decimal string of an integer is handed to convertStringToTLVValue *)
IntegerToTLV ==
    /\ codec.pc = "string"
    /\ codec' = [codec EXCEPT !.pc = "tlv", !.tlv = convertStringToTLVValue(codec.str)]
    /\ CodecUnchanged

(* the bytes are handed to convertTLVValueToString *)
IntegerToString ==
    /\ codec.pc = "tlv"
    /\ codec' = [codec EXCEPT !.pc = "done", !.out = convertTLVValueToString(codec.tlv)]
    /\ CodecUnchanged

InitInteger ==
    /\ dtls = [NewDtls EXCEPT !.Connection = "closed"]
    /\ handshake = NewHandshake
    /\ hsPC = "done" /\ dialPC = "done" /\ dialResult = "none"
    /\ sent = <<>> /\ trace = <<>>
    /\ WriteIdle /\ AgentIdle /\ BootIdle /\ LocalIdle
    /\ \E v \in IntegerInputs :
         codec = [pc |-> "string", v |-> v, str |-> FormatInt(v), tlv |-> <<>>, out |-> <<>>]

NextInteger == IntegerToTLV \/ IntegerToString

SpecInteger == InitInteger /\ [][NextInteger]_vars

(***************************************************************************)
(* Marshal and Unmarshal of one TLV (part_000:30-110) as a round trip.     *)
(***************************************************************************)
(* the lengths at which Marshal changes the form of the length field *)
TLVLengths == {0, 1, 7, 8, 255, 256, 65534, 65535, 65536}

TLVIDs == {0, 255, 256, 65535}

(* a record whose Length is the number of its value bytes *)
TLVInputs ==
    { Lwm2mTLV(type, id, length, [j \in 1..length |-> (7 * j + id) % 256]) :
        type \in 0..3, id \in TLVIDs, length \in TLVLengths }

TLVMarshal ==
    /\ codec.pc = "tlv"
    /\ codec' = [codec EXCEPT !.pc = "raw", !.raw = Marshal(codec.t)]
    /\ CodecUnchanged

TLVUnmarshal ==
    /\ codec.pc = "raw"
    /\ codec' = [codec EXCEPT !.pc = "done", !.out = Unmarshal(codec.raw)]
    /\ CodecUnchanged

InitTLV ==
    /\ dtls = [NewDtls EXCEPT !.Connection = "closed"]
    /\ handshake = NewHandshake
    /\ hsPC = "done" /\ dialPC = "done" /\ dialResult = "none"
    /\ sent = <<>> /\ trace = <<>>
    /\ WriteIdle /\ AgentIdle /\ BootIdle /\ LocalIdle
    /\ \E t \in TLVInputs :
         codec = [pc |-> "tlv", t |-> t, raw |-> <<>>, out |-> Unmarshal(<<>>)]

NextTLV == TLVMarshal \/ TLVUnmarshal

SpecTLV == InitTLV /\ [][NextTLV]_vars

(***************************************************************************)
(* CoAP options: BuildOptions / BuildOption (inventoryd.go:425-462) and    *)
(* ParseOptions / ParseOption (372-422) as a round trip.                   *)
(***************************************************************************)
coapOptCodeByte == 13
coapOptCodeWord == 14
coapOptByteBase == 13
coapOptWordBase == 269

CoapOption(no, value) == [No |-> no, Value |-> value]

(* CoapOption.BuildOption, 437-462.  The second chain tests delta where    *)
(* the first tests delta, as the code does (453); length - 269 is a signed *)
(* int, its shift and mask are the floor and the remainder.                *)
BuildOption(option, base) ==
    LET delta == option.No - base
        length == Len(option.Value)
        deltaBits == IF delta < coapOptByteBase THEN (delta * 16) % 256
                     ELSE IF delta < coapOptWordBase THEN coapOptCodeByte * 16
                     ELSE coapOptCodeWord * 16
        deltaBytes == IF delta < coapOptByteBase THEN <<>>
                      ELSE IF delta < coapOptWordBase THEN <<(delta - coapOptByteBase) % 256>>
                      ELSE <<((delta - coapOptWordBase) \div 256) % 256,
                             (delta - coapOptWordBase) % 256>>
        lengthBits == IF length < coapOptByteBase THEN length
                      ELSE IF delta < coapOptWordBase THEN coapOptCodeByte
                      ELSE coapOptCodeWord
        lengthBytes == IF length < coapOptByteBase THEN <<>>
                       ELSE IF delta < coapOptWordBase THEN <<(length - coapOptByteBase) % 256>>
                       ELSE <<((length - coapOptWordBase) \div 256) % 256,
                              (length - coapOptWordBase) % 256>>
    IN <<(deltaBits + lengthBits) % 256>> \o deltaBytes \o lengthBytes \o option.Value

(* insertion of an option behind the options whose number is not greater *)
RECURSIVE InsertByNo(_, _)
InsertByNo(sorted, option) ==
    IF sorted = <<>> THEN <<option>>
    ELSE IF option.No < Head(sorted).No THEN <<option>> \o sorted
    ELSE <<Head(sorted)>> \o InsertByNo(Tail(sorted), option)

(* sort.Slice by No (427); for the short lists here it is an insertion     *)
(* sort, which keeps the order of equal numbers                            *)
RECURSIVE SortByNo(_)
SortByNo(options) ==
    IF options = <<>> THEN <<>>
    ELSE InsertByNo(SortByNo(SubSeq(options, 1, Len(options) - 1)), options[Len(options)])

RECURSIVE BuildSorted(_, _)
BuildSorted(options, base) ==
    IF options = <<>> THEN <<>>
    ELSE BuildOption(Head(options), base) \o BuildSorted(Tail(options), Head(options).No)

(* CoapMessage.BuildOptions, 425-434 *)
BuildOptions(options) == BuildSorted(SortByNo(options), 0)

(* CoapOption.ParseOption, 391-422.  raw[1] + 13 is a byte sum, and        *)
(* (uint)(raw[1])>>8 is 0, as in the code; panic: an index or a slice      *)
(* bound beyond raw                                                        *)
ParseOption(raw, base) ==
    LET nibbleD == raw[1] \div 16
        nibbleL == raw[1] % 16
        deltaLength == IF nibbleD = coapOptCodeByte THEN 1
                       ELSE IF nibbleD = coapOptCodeWord THEN 2 ELSE 0
        lengthLength == IF nibbleL = coapOptCodeByte THEN 1
                        ELSE IF nibbleL = coapOptCodeWord THEN 2 ELSE 0
        header == 1 + deltaLength + lengthLength
        Panic == [panic |-> TRUE, n |-> 0, option |-> CoapOption(0, <<>>)]
    IN IF Len(raw) < header THEN Panic
       ELSE LET delta == IF nibbleD = coapOptCodeByte THEN (raw[2] + coapOptByteBase) % 256
                         ELSE IF nibbleD = coapOptCodeWord THEN raw[3] + coapOptWordBase
                         ELSE nibbleD
                length == IF nibbleL = coapOptCodeByte
                          THEN (raw[2 + deltaLength] + coapOptByteBase) % 256
                          ELSE IF nibbleL = coapOptCodeWord
                          THEN raw[3 + deltaLength] + coapOptWordBase
                          ELSE nibbleL
            IN IF Len(raw) < header + length THEN Panic
               ELSE [panic |-> FALSE, n |-> header + length,
                     option |-> CoapOption(base + delta,
                                           SubSeq(raw, header + 1, header + length))]

(* CoapMessage.ParseOptions, 372-389: the options up to the end of raw or  *)
(* to the 0xFF marker                                                      *)
RECURSIVE ParseOptions(_, _)
ParseOptions(raw, base) ==
    IF raw = <<>> \/ raw[1] = 255 THEN [panic |-> FALSE, options |-> <<>>]
    ELSE LET o == ParseOption(raw, base) IN
         IF o.panic THEN [panic |-> TRUE, options |-> <<>>]
         ELSE LET rest == ParseOptions(SubSeq(raw, o.n + 1, Len(raw)), o.option.No) IN
              [panic |-> rest.panic, options |-> <<o.option>> \o rest.options]

(* bound: options of a list *)
MaxOptions == 2

(* option numbers and value lengths around the 13 and 269 steps *)
OptionNumbers == {1, 11, 14, 280, 600}

OptionLengths == {0, 12, 13, 256, 269}

(* every byte of a value is 0xFF *)
OptionValue(length) == [j \in 1..length |-> 255]

OptionInputs ==
    { CoapOption(no, OptionValue(length)) : no \in OptionNumbers, length \in OptionLengths }

OptionLists ==
    UNION { [1..n -> OptionInputs] : n \in 0..MaxOptions }

OptionsBuild ==
    /\ codec.pc = "options"
    /\ codec' = [codec EXCEPT !.pc = "raw", !.raw = BuildOptions(codec.options)]
    /\ CodecUnchanged

OptionsParse ==
    /\ codec.pc = "raw"
    /\ codec' = [codec EXCEPT !.pc = "done", !.out = ParseOptions(codec.raw, 0)]
    /\ CodecUnchanged

InitOptions ==
    /\ dtls = [NewDtls EXCEPT !.Connection = "closed"]
    /\ handshake = NewHandshake
    /\ hsPC = "done" /\ dialPC = "done" /\ dialResult = "none"
    /\ sent = <<>> /\ trace = <<>>
    /\ WriteIdle /\ AgentIdle /\ BootIdle /\ LocalIdle
    /\ \E options \in OptionLists :
         codec = [pc |-> "options", options |-> options, raw |-> <<>>,
                  out |-> ParseOptions(<<>>, 0)]

NextOptions == OptionsBuild \/ OptionsParse

SpecOptions == InitOptions /\ [][NextOptions]_vars

(***************************************************************************)
(* One received datagram by its lengths: Dtls.Read (509-521),              *)
(* Dtls.ParsePacket (700-735), Dtls.decrypt (602-640) and the length test  *)
(* of Coap.ParseMessage (inventoryd.go:326-329).                           *)
(***************************************************************************)
dtlsAesCcmMACLength == 8

dtlsRecordHeaderLength == 13

(* Dtls.decrypt, 602-640, for `length` bytes of record payload whose MAC   *)
(* verifies or not.  data[0:8] is within the capacity of the read buffer;  *)
(* make([]byte, len(data)-8-8) panics for a negative length (605).         *)
decrypt(length, macOK) ==
    IF length - dtlsAesCcmMACLength - 8 < 0
    THEN [panic |-> TRUE, verify |-> FALSE, length |-> 0]
    ELSE IF ~macOK THEN [panic |-> FALSE, verify |-> FALSE, length |-> 0]
    ELSE [panic |-> FALSE, verify |-> TRUE, length |-> length - dtlsAesCcmMACLength - 8]

(* Dtls.ParsePacket, 700-722, on a datagram of rawLength bytes whose       *)
(* header announces contentLength bytes: nil, a packet with its content    *)
(* length, or the panic of decrypt                                         *)
ParsePacketRaw(rawLength, contentLength, serverEncrypt, macOK) ==
    IF rawLength < dtlsRecordHeaderLength THEN [pkt |-> "nil", length |-> 0]
    ELSE IF rawLength < dtlsRecordHeaderLength + contentLength THEN [pkt |-> "nil", length |-> 0]
    ELSE IF serverEncrypt
    THEN LET r == decrypt(contentLength, macOK) IN
         IF r.panic THEN [pkt |-> "panic", length |-> 0]
         ELSE IF r.verify THEN [pkt |-> "ok", length |-> r.length]
         ELSE [pkt |-> "nil", length |-> 0]
    ELSE [pkt |-> "ok", length |-> contentLength]

(* payload lengths around the 16 bytes of explicit nonce and MAC *)
MaxContentLength == 20

RecordLengths(contentLength) ==
    {0, 12, 13, 13 + MaxContentLength} \cup { 13 + contentLength + k : k \in {-1, 0, 1} }

RecordInputs ==
    UNION { { [pc |-> "datagram", rawLength |-> rawLength, contentLength |-> contentLength,
               serverEncrypt |-> serverEncrypt, macOK |-> macOK,
               pkt |-> "none", length |-> 0, coapSaw |-> FALSE] :
                rawLength \in RecordLengths(contentLength),
                serverEncrypt \in BOOLEAN, macOK \in BOOLEAN } :
            contentLength \in 0..MaxContentLength }

(* Dtls.Read, 511-515: the datagram is read and parsed; a panic ends the   *)
(* process                                                                 *)
RecordParse ==
    /\ codec.pc = "datagram"
    /\ LET r == ParsePacketRaw(codec.rawLength, codec.contentLength,
                               codec.serverEncrypt, codec.macOK)
       IN codec' = [codec EXCEPT !.pc = IF r.pkt = "panic" THEN "panic" ELSE "parsed",
                                 !.pkt = r.pkt, !.length = r.length]
    /\ CodecUnchanged

(* Dtls.Read, 516-520, and ReadCoapMessage 258-261: nil gives a read of 0  *)
(* bytes, which ParseMessage refuses as it refuses fewer than 4 bytes;     *)
(* otherwise the content reaches the CoAP layer                            *)
RecordDeliver ==
    /\ codec.pc = "parsed"
    /\ codec' = [codec EXCEPT !.pc = "done",
                              !.coapSaw = codec.pkt = "ok" /\ codec.length >= 4]
    /\ CodecUnchanged

InitRecord ==
    /\ dtls = [NewDtls EXCEPT !.Connection = "closed"]
    /\ handshake = NewHandshake
    /\ hsPC = "done" /\ dialPC = "done" /\ dialResult = "none"
    /\ sent = <<>> /\ trace = <<>>
    /\ WriteIdle /\ AgentIdle /\ BootIdle /\ LocalIdle
    /\ codec \in RecordInputs

NextRecord == RecordParse \/ RecordDeliver

SpecRecord == InitRecord /\ [][NextRecord]_vars

(***************************************************************************)
(* Message-ids statement by statement: Coap.SendRequest                    *)
(* (inventoryd.go:275-290) in the update task, NotifyResource              *)
(* (lwm2m_device_management.go:117-157) with Coap.SendRelatedMessage       *)
(* (inventoryd.go:309-322) in the observe task, and ObserveDeregister in   *)
(* the receive task.  The three tasks share coap.NextMessageID and the     *)
(* observation records without a lock; `x = (x + 1) & 0xFFFF` is a read    *)
(* and a write.                                                            *)
(***************************************************************************)
(* bound: message-ids given out *)
MaxAllocations == 4

NoAllocation == [updMsg |-> NoMessage, updNext |-> 0, obsMsg |-> NoMessage, obsNext |-> 0,
                 ids |-> <<>>, answered |-> 0]

AllocationBudget == Len(local.ids) + (IF updPC # "idle" THEN 1 ELSE 0)
                                   + (IF obsPC \in {"relatedInc", "relatedStore"} THEN 1 ELSE 0)
                        < MaxAllocations

(* where the range loop of Observe (21-23) goes after one observation *)
NextObservation(todo) ==
    IF Tail(todo) # <<>> THEN [pc |-> "notifyResource", todo |-> Tail(todo)]
    ELSE [pc |-> "idle", todo |-> <<>>]

(* Update 88-92 -> SendRequest 276-284: the message is built with          *)
(* MessageID: coap.NextMessageID                                           *)
SendRequestBuild ==
    /\ updPC = "idle" /\ Connection # "nil" /\ AllocationBudget
    /\ local' = [local EXCEPT !.updMsg = CoapMessage(CoapTypeConfirmable, CoapCodePost,
                                                     coap.NextMessageID, <<"rd", Location>>)]
    /\ updPC' = "sendRequestInc"
    /\ UNCHANGED <<dtls, sent, Connection, registered, Location, coap, updCh, rtPC, rtMsg,
                   ghost, runPC, observeVars>>
    /\ UNCHANGED <<handshake, hsPC, dialPC, dialResult, trace, writeVars, boot, codec>>

(* SendRequest 285, the read of coap.NextMessageID + 1 *)
SendRequestLoad ==
    /\ updPC = "sendRequestInc"
    /\ local' = [local EXCEPT !.updNext = coap.NextMessageID]
    /\ updPC' = "sendRequestStore"
    /\ UNCHANGED <<dtls, sent, Connection, registered, Location, coap, updCh, rtPC, rtMsg,
                   ghost, runPC, observeVars>>
    /\ UNCHANGED <<handshake, hsPC, dialPC, dialResult, trace, writeVars, boot, codec>>

(* SendRequest 285-289: the write of coap.NextMessageID, the entry of      *)
(* ChInProcess, the message on the connection; Update goes to its select   *)
SendRequestStore ==
    /\ updPC = "sendRequestStore"
    /\ LET mid == local.updMsg.MessageID
           w == DtlsWrite(dtls, local.updMsg)
       IN /\ coap' = [NextMessageID |-> (local.updNext + 1) % Uint16,
                      ChInProcess |-> [m \in (DOMAIN coap.ChInProcess) \cup {mid} |->
                                         IF m = mid THEN <<"updateCh", mid>>
                                         ELSE coap.ChInProcess[m]]]
          /\ sent' = ConnWrite(w.rec)
          /\ dtls' = w.d
          /\ updCh' = <<"updateCh", mid>>
          /\ local' = [local EXCEPT !.ids = Append(local.ids,
                                        [task |-> "update", mid |-> mid, obs |-> 0])]
    /\ updPC' = "updateWait"
    /\ UNCHANGED <<Connection, registered, Location, rtPC, rtMsg, ghost, runPC, observeVars>>
    /\ UNCHANGED <<handshake, hsPC, dialPC, dialResult, trace, writeVars, boot, codec>>

(* the server acknowledges the Update: ReadCoapMessage 262-267 meets the   *)
(* select of Update (98-103), which returns                                *)
UpdateAcked ==
    /\ updPC = "updateWait" /\ RtAtRead(rtPC)
    /\ updCh[2] \in DOMAIN coap.ChInProcess
    /\ coap' = DeletePending(coap, updCh[2])
    /\ updCh' = "none"
    /\ updPC' = "idle"
    /\ UNCHANGED <<dtls, sent, Connection, registered, Location, rtPC, rtMsg, ghost, runPC,
                   observeVars>>
    /\ UNCHANGED <<handshake, hsPC, dialPC, dialResult, trace, writeVars, boot, codec, local>>

(* NotifyResource 117-156 and SendRelatedMessage 310-318 for the next      *)
(* observation of the loop: nothing when no notification is due; otherwise *)
(* lastValue and observeCount are written and the message is built with    *)
(* MessageID: coap.NextMessageID                                           *)
RelatedBuild ==
    /\ obsPC = "notifyResource" /\ Connection # "nil"
    /\ LET o == Head(obsTodo)
           n == NotifyResource(o, handler)
       IN IF ~n.send
          THEN /\ obsPC' = NextObservation(obsTodo).pc
               /\ obsTodo' = NextObservation(obsTodo).todo
               /\ UNCHANGED <<observedResource, local>>
          ELSE /\ AllocationBudget
               /\ observedResource' = Store(observedResource, n.o)
               /\ obsTodo' = <<n.o>> \o Tail(obsTodo)
               /\ local' = [local EXCEPT !.obsMsg =
                              CoapOut(CoapTypeNonConfirmable, CoapCodeContent, coap.NextMessageID,
                                      o.token, coapContentFormatLwm2mTLV, n.observe, n.payload)]
               /\ obsPC' = "relatedInc"
    /\ UNCHANGED <<dtls, sent, Connection, registered, Location, coap, updPC, updCh, rtPC, rtMsg,
                   ghost, runPC, observedInstance, handler>>
    /\ UNCHANGED <<handshake, hsPC, dialPC, dialResult, trace, writeVars, boot, codec>>

(* SendRelatedMessage 319, the read of coap.NextMessageID + 1 *)
RelatedLoad ==
    /\ obsPC = "relatedInc"
    /\ local' = [local EXCEPT !.obsNext = coap.NextMessageID]
    /\ obsPC' = "relatedStore"
    /\ UNCHANGED <<dtls, sent, Connection, registered, Location, coap, updPC, updCh, rtPC, rtMsg,
                   ghost, runPC, obsTodo, observedInstance, observedResource, handler>>
    /\ UNCHANGED <<handshake, hsPC, dialPC, dialResult, trace, writeVars, boot, codec>>

(* SendRelatedMessage 319-321: the write of coap.NextMessageID, the        *)
(* notification on the connection, the return of its message-id            *)
RelatedStore ==
    /\ obsPC = "relatedStore"
    /\ LET w == DtlsWrite(dtls, local.obsMsg) IN
          /\ coap' = [coap EXCEPT !.NextMessageID = (local.obsNext + 1) % Uint16]
          /\ sent' = ConnWrite(w.rec)
          /\ dtls' = w.d
          /\ local' = [local EXCEPT !.ids = Append(local.ids,
                                        [task |-> "observe", mid |-> local.obsMsg.MessageID,
                                         obs |-> Head(obsTodo).id])]
    /\ obsPC' = "recordID"
    /\ UNCHANGED <<Connection, registered, Location, updPC, updCh, rtPC, rtMsg, ghost, runPC,
                   obsTodo, observedInstance, observedResource, handler>>
    /\ UNCHANGED <<handshake, hsPC, dialPC, dialResult, trace, writeVars, boot, codec>>

(* NotifyResource 157: observe.messageID = the returned message-id, a      *)
(* write through the pointer the loop holds                                *)
RelatedRecord ==
    /\ obsPC = "recordID"
    /\ LET o == Head(obsTodo) IN
          observedResource' = [i \in 1..Len(observedResource) |->
                                 IF observedResource[i].id = o.id
                                 THEN [observedResource[i] EXCEPT
                                         !.messageID = local.obsMsg.MessageID]
                                 ELSE observedResource[i]]
    /\ obsPC' = NextObservation(obsTodo).pc
    /\ obsTodo' = NextObservation(obsTodo).todo
    /\ UNCHANGED <<dtls, sent, Connection, registered, Location, coap, updPC, updCh, rtPC, rtMsg,
                   ghost, runPC, observedInstance, handler>>
    /\ UNCHANGED <<handshake, hsPC, dialPC, dialResult, trace, writeVars, boot, codec, local>>

(* ReadCoapMessage with ReceiveMessage 160-163: the server answers one of  *)
(* the notifications sent so far with an RST                               *)
ResetNotification ==
    /\ RtAtRead(rtPC) /\ dtls.Connection = "open"
    /\ ObserveBudget(ghost)
    /\ \E i \in 1..Len(local.ids) :
         /\ local.ids[i].task = "observe"
         /\ LET message == CoapMessage(CoapTypeReset, CoapCodeEmpty, local.ids[i].mid, <<>>)
                r == ObserveDeregister(observedInstance, observedResource, message.MessageID)
            IN /\ observedInstance' = r.oi
               /\ observedResource' = r.or
               /\ rtMsg' = message
               /\ ghost' = Received(ghost, message)
               /\ local' = [local EXCEPT !.answered = i]
    /\ UNCHANGED <<dtls, sent, Connection, registered, Location, coap, updPC, updCh, rtPC,
                   runPC, obsPC, obsTodo, handler>>
    /\ UNCHANGED <<handshake, hsPC, dialPC, dialResult, trace, writeVars, boot, codec>>

(* a registered agent with two observations of resource 9 that have not    *)
(* notified yet; the value of the resource has changed since               *)
InitNotify ==
    /\ dtls = [EstablishedDtls EXCEPT !.ClientSequence = 2]
    /\ handshake = NewHandshake
    /\ hsPC = "done" /\ dialPC = "done" /\ dialResult = "none"
    /\ sent = <<>> /\ trace = <<>>
    /\ WriteIdle /\ BootIdle /\ CodecIdle
    /\ Connection = "coap"
    /\ registered = TRUE
    /\ Location = "xyz-42"
    /\ \E id \in InitialMessageIDs : coap = [NextMessageID |-> id, ChInProcess |-> <<>>]
    /\ updPC = "idle"
    /\ updCh = "none"
    /\ rtPC = "read"
    /\ rtMsg = NoMessage
    /\ ghost = [NewGhost EXCEPT !.last = "registerOK", !.nObs = 2]
    /\ runPC = "off"
    /\ obsPC = "idle"
    /\ obsTodo = <<>>
    /\ observedInstance = <<>>
    /\ observedResource = <<ObservedResource(1, <<"token", 1>>, 9, "45"),
                            ObservedResource(2, <<"token", 2>>, 9, "45")>>
    /\ handler = [resourceID \in {1, 9} |-> IF resourceID = 1 THEN "m" ELSE "43"]
    /\ local = NoAllocation

NextNotify ==
    \/ SendRequestBuild \/ SendRequestLoad \/ SendRequestStore \/ UpdateAcked
    \/ ObserveTick \/ RelatedBuild \/ RelatedLoad \/ RelatedStore \/ RelatedRecord
    \/ ResetNotification \/ HandlerChange

SpecNotify == InitNotify /\ [][NextNotify]_vars

(***************************************************************************)
(* Lwm2m.close statement by statement (lwm2m_register.go:70-74): the agent *)
(* of Spec with the two assignments of close as two steps.                 *)
(***************************************************************************)
(* close, 72: lwm2m.Connection = nil, after Coap.Close has returned *)
CloseClearConnection ==
    /\ updPC \in {"registerClosed", "updateClosed"}
    /\ Connection' = "nil"
    /\ updPC' = IF updPC = "registerClosed" THEN "registerCleared" ELSE "updateCleared"
    /\ UNCHANGED <<dtls, sent, registered, Location, coap, updCh, rtPC, rtMsg, ghost>>
    /\ AgentUnchanged

(* close that returns without clearing registered *)
MutCloseClearRegistered ==
    /\ updPC \in {"registerCleared", "updateCleared"}
    /\ registered' = registered
    /\ ghost' = [ghost EXCEPT !.last = IF updPC = "registerCleared" THEN "registerTimeout"
                                                                    ELSE "updateTimeout"]
    /\ updPC' = "idle"
    /\ UNCHANGED <<dtls, sent, Connection, Location, coap, updCh, rtPC, rtMsg>>
    /\ AgentUnchanged

(* close, 73: lwm2m.registered = false, and the return of the timeout      *)
(* error (Register 37, Update 97)                                          *)
CloseClearRegistered ==
    /\ updPC \in {"registerCleared", "updateCleared"}
    /\ registered' = FALSE
    /\ ghost' = [ghost EXCEPT !.last = IF updPC = "registerCleared" THEN "registerTimeout"
                                                                    ELSE "updateTimeout"]
    /\ updPC' = "idle"
    /\ UNCHANGED <<dtls, sent, Connection, Location, coap, updCh, rtPC, rtMsg>>
    /\ AgentUnchanged

NextTeardown ==
    \/ RegisterConnectFail \/ RegisterConnect \/ ConnectAssign \/ RegisterSend
    \/ WaitTimeout \/ CoapClose \/ CloseClearConnection \/ CloseClearRegistered
    \/ RegisterReturn \/ UpdateReturn
    \/ TickRegister \/ TickUpdate
    \/ RtReceive \/ Fulfil \/ RtDelete

SpecTeardown == Init /\ [][NextTeardown]_vars

(***************************************************************************)
(* Claims about the agent (checked under Spec)                             *)
(***************************************************************************)
\* C7: a received record whose MAC does not verify is dropped: RecvHandler
\* is not called for it, Connection, registered, Location and the pending
\* table are unchanged, the socket stays open and the receive task is back
\* at its read.
C7_BadMacDropped ==
    [][ (ghost'.rxN = ghost.rxN + 1 /\ ghost'.lastRx.Full /\ ~ghost'.lastRx.Enc) =>
          /\ ghost'.handled = ghost.handled
          /\ UNCHANGED <<Connection, registered, Location, coap>>
          /\ dtls'.Connection = "open"
          /\ rtPC' = "read" ]_vars

C7_Witness ==
    /\ ghost.rxN >= 1 /\ ghost.lastRx.Full /\ ~ghost.lastRx.Enc
    /\ updPC = "registerWait"
    /\ ghost.lastRx.Body.MessageID \in DOMAIN coap.ChInProcess

\* C8: registered is true only after an ACK with code 2.01 Created and the
\* message-id of the Register request has released Register.
C8_RegisteredOnlyAfterCreated ==
    registered =>
        /\ ghost.regAck.Type = CoapTypeAcknowledgement
        /\ ghost.regAck.Code = CoapCodeCreated
        /\ ghost.regAck.MessageID = ghost.regMid

\* C9 as stated: when Register returns success after a 2.01 ACK with at
\* least two Location-Path options, Location at the return is the second
\* Location-Path option of that ACK.
C9_LocationAtReturn ==
    (ghost.last = "registerOK" /\ IsCreatedWithLocation(ghost.regAck)) =>
        ghost.locAtReturn = ghost.regAck.LocationPath[2]

\* C9 amended: when Register returns success after a 2.01 ACK with at least
\* two Location-Path options, the handler has run for that ACK, and Location
\* at the return is the second Location-Path option of the last such ACK
\* the receive task handled (the releasing one or a later one).
C9_LocationOfLastCreatedAck ==
    (ghost.last = "registerOK" /\ IsCreatedWithLocation(ghost.regAck)) =>
        /\ ghost.createdAtReturn # NoMessage
        /\ ghost.locAtReturn = ghost.createdAtReturn.LocationPath[2]

C9_Witness ==
    /\ ghost.last = "registerOK" /\ IsCreatedWithLocation(ghost.regAck)
    /\ ghost.regAck.MessageID = ghost.regMid
    /\ ghost.locAtReturn = "xyz-42"
    /\ ghost.regAck.LocationPath = <<"rd", "xyz-42">>

\* C10: after Register or Update has returned a timeout error, Connection
\* is nil and registered is false.
C10_TimeoutTearsDown ==
    (updPC = "idle" /\ ghost.last \in {"registerTimeout", "updateTimeout"}) =>
        (Connection = "nil" /\ ~registered /\ dtls.Connection = "closed")

C10_Witness ==
    /\ updPC = "idle" /\ ghost.last = "updateTimeout"
    /\ Connection = "nil" /\ ~registered

\* C11: after a failed Register or a timed-out Update the update task gets
\* back to its ticker, so that the next tick attempts Register again: it is
\* never stuck inside close() behind a receive task that cannot take the
\* stop message.
C11_RetryAtNextTick ==
    ~(updPC \in {"registerClose", "updateClose"} /\ rtPC = "fulfil")

\* C12: when Update was released by an ACK whose code is not 2.04 Changed,
\* the connection is closed (Connection is nil, registered is false) when
\* Update returns, so that the next tick performs Register.
C12_UpdateFailureCloses ==
    (updPC = "idle" /\ ghost.last = "updateOK" /\ ghost.updAck.Code # CoapCodeChanged) =>
        (Connection = "nil" /\ ~registered)

\* C14: the pending table holds an entry for the message-id of a request
\* while its owner waits, and holds none for it once the owner has timed
\* out (the Coap being still the agent's connection).
C14_PendingLifetime ==
    /\ (updPC \in {"registerWait", "updateWait"}) =>
           ghost.reqMid \in DOMAIN coap.ChInProcess
    /\ (updPC \in {"registerClose", "updateClose", "registerClosed", "updateClosed"}) =>
           ghost.reqMid \notin DOMAIN coap.ChInProcess

\* C15: the receive task handles datagrams one at a time in arrival order:
\* the handler is called only from the head of the loop, for the datagram
\* just read, when the handler of the datagram before has returned and,
\* that one being an ACK, its pending channel has been fulfilled and its
\* entry deleted.
C15_OneAtATime ==
    [][ ghost'.handled = ghost.handled + 1 =>
          /\ rtPC = "read"
          /\ ghost'.rxN = ghost.rxN + 1
          /\ rtMsg' = ghost'.lastRx.Body ]_vars

C15_Witness ==
    /\ ghost.handled >= 2
    /\ ghost.regAck.Type = CoapTypeAcknowledgement
    /\ rtPC = "read" /\ rtMsg # ghost.regAck

(***************************************************************************)
(* Claims about termination (checked under SpecRun)                        *)
(***************************************************************************)
\* C13: once the termination signal has been received, no task crashes and
\* no task is left blocked: the update task is not stopped by a panic, and
\* it is not stuck inside close() behind a receive task that cannot take
\* the stop message.
C13_CleanShutdown ==
    (runPC # "wait") =>
        /\ "panic" \notin {updPC, obsPC, rtPC}
        /\ ~(updPC \in {"registerClose", "updateClose", "stopClose"} /\ rtPC = "fulfil")

(***************************************************************************)
(* Claims about observations (checked under SpecObserve)                   *)
(***************************************************************************)
\* C16: in every turn of the resource loop of an Observe tick: if the
\* observed resource reads a value that differs from the observation's
\* lastValue, exactly one datagram is sent, a NON with the observation's
\* token, and the observation's lastValue becomes the value read; if the
\* value read equals lastValue, no datagram is sent.
C16_NotifyOnChange ==
    [][ (obsPC = "notifyResource" /\ <<obsPC, obsTodo>>' # <<obsPC, obsTodo>>) =>
          LET o == Head(obsTodo)
              value == handler[o.resource]
          IN /\ (value # "fail" /\ value # o.lastValue) =>
                  /\ Len(sent') = Len(sent) + 1
                  /\ sent'[Len(sent')].Body.Type = CoapTypeNonConfirmable
                  /\ sent'[Len(sent')].Body.Token = o.token
                  /\ \A i \in 1..Len(observedResource') :
                        observedResource'[i].id = o.id =>
                           observedResource'[i].lastValue = value
             /\ (value = o.lastValue) => sent' = sent ]_vars

\* C17: the first notification sent for an observation (the first NON that
\* carries the observation's token) has an Observe option whose bytes are
\* [0x01].
C17_FirstNotificationIsOne ==
    \A i \in 1..Len(sent) :
       (/\ sent[i].Body.Type = CoapTypeNonConfirmable
        /\ \A j \in 1..(i - 1) :
              ~(/\ sent[j].Body.Type = CoapTypeNonConfirmable
                /\ sent[j].Body.Token = sent[i].Body.Token))
       => sent[i].Body.Observe = <<1>>

\* C18: for every observation, in every step: its observe counter either
\* stays as it is, or goes up by one while exactly one notification for it
\* is sent (a NON with its token that carries the counter as it was before
\* the step); a step that sends no notification for the observation leaves
\* its counter unchanged.
C18_CounterFollowsNotifications ==
    [][ LET before == observedInstance \o observedResource
            after == observedInstance' \o observedResource'
        IN \A i \in 1..Len(before) : \A j \in 1..Len(after) :
              before[i].id = after[j].id =>
                 \/ after[j].observeCount = before[i].observeCount
                 \/ /\ after[j].observeCount = before[i].observeCount + 1
                    /\ Len(sent') = Len(sent) + 1
                    /\ sent'[Len(sent')].Body.Type = CoapTypeNonConfirmable
                    /\ sent'[Len(sent')].Body.Token = before[i].token
                    /\ sent'[Len(sent')].Body.Observe
                          = ObserveCountBuf(before[i].observeCount) ]_vars

\* C19: in every step that handles a GET: if the GET carries an Observe
\* option and is answered 2.05 Content, one record is appended to one of
\* the two observation sequences (the resource sequence for a resource
\* path, the instance sequence for an instance path), holding the request's
\* token and as lastValue the value(s) returned in the answer, and the rest
\* of both sequences is as before; in every other case (a GET without the
\* option, an observed GET answered 4.04 or 4.05 or not at all) both
\* sequences are unchanged.
C19_AppendedIffObservedContent ==
    [][ (/\ ghost'.rxN = ghost.rxN + 1
         /\ rtMsg'.Type = CoapTypeConfirmable
         /\ rtMsg'.Code = CoapCodeGet) =>
          LET m == rtMsg'
              answered == /\ Len(sent') = Len(sent) + 1
                          /\ sent'[Len(sent')].Body.Type = CoapTypeAcknowledgement
                          /\ sent'[Len(sent')].Body.MessageID = m.MessageID
                          /\ sent'[Len(sent')].Body.Code = CoapCodeContent
              payload == sent'[Len(sent')].Body.Payload
              n == Len(observedResource)
              k == Len(observedInstance)
          IN IF m.IsObserve /\ answered
             THEN \/ /\ Len(m.Path) = 3
                     /\ observedInstance' = observedInstance
                     /\ Len(observedResource') = n + 1
                     /\ SubSeq(observedResource', 1, n) = observedResource
                     /\ observedResource'[n + 1].token = m.Token
                     /\ observedResource'[n + 1].resource = m.Path[3]
                     /\ payload = <<TLV(m.Path[3], observedResource'[n + 1].lastValue)>>
                  \/ /\ Len(m.Path) = 2
                     /\ observedResource' = observedResource
                     /\ Len(observedInstance') = k + 1
                     /\ SubSeq(observedInstance', 1, k) = observedInstance
                     /\ observedInstance'[k + 1].token = m.Token
                     /\ LET resources == observedInstance'[k + 1].resources
                        IN payload = [i \in 1..Len(resources) |->
                                        TLV(resources[i].resource, resources[i].lastValue)]
             ELSE /\ observedInstance' = observedInstance
                  /\ observedResource' = observedResource ]_vars

\* an observed GET of /3/0/9 has been answered 2.05 and its record is the
\* only one of the resource sequence
C19_Witness ==
    /\ rtMsg.Type = CoapTypeConfirmable /\ rtMsg.Code = CoapCodeGet
    /\ rtMsg.IsObserve /\ rtMsg.Path = <<3, 0, 9>>
    /\ Len(sent) = 1 /\ sent[1].Body.Code = CoapCodeContent
    /\ Len(observedResource) = 1
    /\ observedResource[1].token = rtMsg.Token
    /\ observedInstance = <<>>

\* C20: in every step that handles an RST: the observations whose last
\* notification was sent with the message-id of the RST are removed, every
\* other observation stays, in the order it had; an RST whose message-id
\* is not the message-id of the last notification of any observation
\* leaves both sequences unchanged.
C20_ResetRemovesMatching ==
    [][ (ghost'.rxN = ghost.rxN + 1 /\ rtMsg'.Type = CoapTypeReset) =>
          LET Keep(o) == ~(o.observeCount > 0 /\ o.messageID = rtMsg'.MessageID)
          IN /\ observedInstance' = SelectSeq(observedInstance, Keep)
             /\ observedResource' = SelectSeq(observedResource, Keep) ]_vars

\* C21: in every turn of the instance loop of an Observe tick, with the
\* changed resources being the observed resources of the instance that are
\* readable, whose read succeeds and whose value read differs from their
\* lastValue: a datagram sent in the turn is a NON with the observation's
\* token whose payload holds the TLVs of exactly the changed resources, in
\* their order; lastValue becomes the value read for the changed resources
\* and stays as it is for the others; when no resource changed, no
\* datagram is sent and the observation's counter and message-id stay.
C21_InstanceNotification ==
    [][ (obsPC = "notifyInstance" /\ <<obsPC, obsTodo>>' # <<obsPC, obsTodo>>) =>
          LET o == Head(obsTodo)
              Differs(r) == /\ Readable(r.resource)
                            /\ handler[r.resource] # "fail"
                            /\ handler[r.resource] # r.lastValue
              changed == SelectSeq(o.resources, Differs)
          IN /\ sent' # sent =>
                  /\ Len(sent') = Len(sent) + 1
                  /\ sent'[Len(sent')].Body.Type = CoapTypeNonConfirmable
                  /\ sent'[Len(sent')].Body.Token = o.token
                  /\ sent'[Len(sent')].Body.Payload =
                        [i \in 1..Len(changed) |->
                           TLV(changed[i].resource, handler[changed[i].resource])]
             /\ \A j \in 1..Len(observedInstance') :
                   observedInstance'[j].id = o.id =>
                      /\ Len(observedInstance'[j].resources) = Len(o.resources)
                      /\ \A i \in 1..Len(o.resources) :
                            observedInstance'[j].resources[i].lastValue =
                               IF Differs(o.resources[i])
                               THEN handler[o.resources[i].resource]
                               ELSE o.resources[i].lastValue
                      /\ changed = <<>> =>
                            /\ observedInstance'[j].observeCount = o.observeCount
                            /\ observedInstance'[j].messageID = o.messageID
             /\ changed = <<>> => sent' = sent ]_vars

\* an instance notification has been sent for an observation of two
\* resources of which one had changed: it holds the TLV of that one
C21_Witness ==
    /\ Len(observedInstance) = 1
    /\ Len(observedInstance[1].resources) = 2
    /\ observedInstance[1].observeCount = 1
    /\ Len(sent) = 2
    /\ sent[2].Body.Type = CoapTypeNonConfirmable
    /\ sent[2].Body.Token = observedInstance[1].token
    /\ Len(sent[2].Body.Payload) = 1
    /\ observedInstance[1].resources[2].lastValue = sent[2].Body.Payload[1].Value
    /\ observedInstance[1].resources[1].lastValue = "m"

C23_UnparsablePathIsBadRequest ==
    [][ (/\ ghost'.rxN = ghost.rxN + 1
         /\ rtMsg'.Type = CoapTypeConfirmable
         /\ rtMsg'.Code \in {CoapCodeGet, CoapCodePut, CoapCodePost}
         /\ \/ Len(rtMsg'.Path) > 3
            \/ \E i \in 1..Len(rtMsg'.Path) : rtMsg'.Path[i] < 0) =>
          /\ Len(sent') = Len(sent) + 1
          /\ sent'[Len(sent')].Body.Type = CoapTypeAcknowledgement
          /\ sent'[Len(sent')].Body.MessageID = rtMsg'.MessageID
          /\ sent'[Len(sent')].Body.Code = CoapCodeBadRequest ]_vars

\* C24: in every step that handles a request for which the Handler
\* returned a code that is not a success code, one ACK with the request's
\* message-id and exactly that code is sent, and Connection, registered
\* and the socket are as they were.
C24_HandlerFailureCode ==
    [][ (/\ ghost'.rxN = ghost.rxN + 1
         /\ rtMsg'.Type = CoapTypeConfirmable
         /\ ghost'.returned \notin {0, CoapCodeContent, CoapCodeChanged}) =>
          /\ Len(sent') = Len(sent) + 1
          /\ sent'[Len(sent')].Body.Type = CoapTypeAcknowledgement
          /\ sent'[Len(sent')].Body.MessageID = rtMsg'.MessageID
          /\ sent'[Len(sent')].Body.Code = ghost'.returned
          /\ Connection' = Connection /\ registered' = registered
          /\ dtls'.Connection = dtls.Connection ]_vars

(***************************************************************************)
(* Claims about the bootstrap agent (checked under SpecBootstrap)          *)
(***************************************************************************)
(* C25: when the ACK of the bootstrap request and the Finish POST have     *)
(* both arrived while Bootstrap waited, in either order, Bootstrap does    *)
(* not return the timeout error; when the completion signal fires the 2.04 *)
(* of the Finish has been sent; Bootstrap returns success only after a     *)
(* Finish POST was received.                                               *)
C25_FinishCompletesBootstrap ==
    /\ [](boot.pc = "returnedTimeout" => ~(boot.ackArrived /\ boot.finishArrived))
    /\ [](boot.pc = "returnedOK" => boot.finishHandled)
    /\ [][ (boot.pc # "returnedOK" /\ boot'.pc = "returnedOK") =>
              /\ rtMsg.Type = CoapTypeConfirmable /\ rtMsg.Code = CoapCodePost
              /\ \E k \in 1..Len(sent) : sent[k].Body = Response(rtMsg, CoapCodeChanged) ]_vars

(* C26: a bootstrap PUT /o/i calls CreateInstance(o, i) first and once,    *)
(* then WriteResource once per TLV of the payload in payload order; when   *)
(* no call failed every TLV was written and 2.04 is sent; when a call      *)
(* failed it is the last call and its code is sent.                        *)
C26_BootstrapWrite ==
    [][ (/\ rtPC = "read" /\ boot.inbox # <<>>
         /\ Len(boot'.inbox) < Len(boot.inbox)
         /\ Head(boot.inbox).Parsable
         /\ Head(boot.inbox).Type = CoapTypeConfirmable
         /\ Head(boot.inbox).Code = CoapCodePut
         /\ Len(Head(boot.inbox).Path) = 2
         /\ ~extractResourceID(Head(boot.inbox).Path).err) =>
          LET message == Head(boot.inbox)
              o == message.Path[1]
              i == message.Path[2]
              ids == PayloadIDs(message.Payload)
              calls == boot'.calls
              failed == boot'.returned \notin {CoapCodeCreated, CoapCodeChanged}
          IN /\ Len(calls) >= 1 /\ calls[1] = Call("CreateInstance", o, i, -1)
             /\ Len(calls) - 1 <= Len(ids)
             /\ \A k \in 2..Len(calls) : calls[k] = Call("WriteResource", o, i, ids[k - 1])
             /\ ~failed => Len(calls) - 1 = Len(ids)
             /\ Len(sent') = Len(sent) + 1
             /\ sent'[Len(sent')].Body =
                  Response(message, IF failed THEN boot'.returned ELSE CoapCodeChanged) ]_vars

(* C27: a bootstrap DELETE calls DeleteObject for object 0 and for object  *)
(* 1 and for no other object, leaves every instance and resource of the    *)
(* other objects in the store, and is answered 2.02 Deleted.               *)
C27_BootstrapDelete ==
    [][ (/\ rtPC = "read" /\ boot.inbox # <<>>
         /\ Len(boot'.inbox) < Len(boot.inbox)
         /\ Head(boot.inbox).Parsable
         /\ Head(boot.inbox).Type = CoapTypeConfirmable
         /\ Head(boot.inbox).Code = CoapCodeDelete) =>
          /\ boot'.calls = <<Call("DeleteObject", 0, -1, -1), Call("DeleteObject", 1, -1, -1)>>
          /\ boot'.store \subseteq boot.store
          /\ \A p \in boot.store : p[1] \notin {0, 1} => p \in boot'.store
          /\ Len(sent') = Len(sent) + 1
          /\ sent'[Len(sent')].Body = Response(Head(boot.inbox), CoapCodeDeleted) ]_vars

(* a DELETE with path /3 has been answered: the objects 0 and 1 are gone,  *)
(* object 3 is still there                                                 *)
C27_Witness ==
    /\ rtMsg.Type = CoapTypeConfirmable /\ rtMsg.Code = CoapCodeDelete
    /\ rtMsg.Path = <<3>>
    /\ Len(boot.calls) = 2 /\ boot.calls[1].op = "DeleteObject"
    /\ \A p \in boot.store : p[1] \notin {0, 1}
    /\ <<3, 0>> \in boot.store /\ <<3, 0, 9>> \in boot.store
    /\ sent[Len(sent)].Body.Code = CoapCodeDeleted

(* C28: when Bootstrap has returned the timeout error (from the wait for   *)
(* the ACK or from the wait for the Finish), the UDP socket it opened is   *)
(* closed.                                                                 *)
C28_FailureClosesSocket ==
    boot.pc = "returnedTimeout" => boot.conn = "closed"

(***************************************************************************)
(* Claims about the termination of tasks (checked under SpecHandshakeFair) *)
(***************************************************************************)
(* C29: once DtlsDial has returned (success, failure or timeout) the       *)
(* handshake task it spawned eventually ends: it returns from              *)
(* processHandshake, or the process ends with its panic.                   *)
C29_HandshakeTaskEnds ==
    (dialPC = "done") ~> (hsPC \in {"done", "panic"})

(***************************************************************************)
(* Claims about Observe against the teardown (checked under SpecObserve)   *)
(***************************************************************************)
(* C30: in every interleaving of the observe task with the teardown of the *)
(* update task, a step of the observe task that sends a notification is    *)
(* taken with Connection non-nil and registered true, and the observe task *)
(* never dereferences a Connection that close() has set to nil.            *)
C30_ObserveAgainstTeardown ==
    /\ [][ (obsPC \in {"notifyInstance", "notifyResource"} /\ Len(sent') > Len(sent)) =>
              (Connection # "nil" /\ registered) ]_vars
    /\ [](obsPC # "panic")

(***************************************************************************)
(* Claims about the handshake state after success (SpecHandshake)          *)
(***************************************************************************)
(* C31: once DtlsDial has returned the connection (success), the handshake *)
(* state the connection holds is cleared: no master secret, no             *)
(* handshake_messages buffer.                                              *)
C31_HandshakeStateCleared ==
    dialResult = "ok" =>
        /\ handshake.MasterSecret = EmptyBytes
        /\ handshake.Messages = <<>>

(***************************************************************************)
(* Claims about the conversions (checked under SpecInteger)                *)
(***************************************************************************)
(* C32: the decimal string of an integer, converted to TLV bytes with      *)
(* resource type Integer and back, is the same decimal string.             *)
C32_IntegerRoundTrip ==
    codec.pc = "done" => codec.out = codec.str

(* C33 (checked under SpecTLV): for a TLV record whose Length is the       *)
(* number of its value bytes, Unmarshal of its Marshal gives the same      *)
(* type-of-id, id, length and value, and consumes every byte.              *)
C33_TLVRoundTrip ==
    codec.pc = "done" =>
        /\ codec.out.tlv = codec.t
        /\ codec.out.n = Len(codec.raw)

(* C34 (checked under SpecOptions): parsing the bytes BuildOptions made    *)
(* of a list of options gives the same options sorted by number, with the  *)
(* same numbers and values.                                                *)
C34_OptionsRoundTrip ==
    codec.pc = "done" =>
        /\ ~codec.out.panic
        /\ codec.out.options = SortByNo(codec.options)

(* the owner of the ACK held by the receive task is in its select on the   *)
(* channel registered for the ACK's message-id                             *)
OwnerWaiting ==
    /\ rtMsg.MessageID \in DOMAIN coap.ChInProcess
    /\ updPC \in {"registerWait", "updateWait"}
    /\ coap.ChInProcess[rtMsg.MessageID] = updCh

(* C35 (checked under Spec): the receive task is never held at `ch <- 1`   *)
(* by an ACK nobody waits for (unknown message-id, duplicate, owner timed  *)
(* out): whenever it is at the send, the owner is there to receive, and    *)
(* the update task is never in Close() while the receive task is at the    *)
(* send.                                                                   *)
C35_AckNeverBlocks ==
    rtPC = "fulfil" =>
        /\ OwnerWaiting
        /\ updPC \notin {"registerClose", "updateClose", "stopClose"}

(* C36 (checked under SpecRecord): a complete encrypted record whose       *)
(* payload is shorter than 16 bytes is refused like a record whose MAC     *)
(* fails: ParsePacket gives nil, nothing panics, and the CoAP layer sees   *)
(* nothing of it.                                                          *)
C36_ShortRecordDropped ==
    (/\ codec.pc # "datagram"
     /\ codec.serverEncrypt
     /\ codec.contentLength < 16
     /\ codec.rawLength >= dtlsRecordHeaderLength + codec.contentLength)
    => (codec.pc # "panic" /\ codec.pkt = "nil" /\ ~codec.coapSaw)

(* the last record sent is the ACK of the request with the given code *)
AnsweredWith(message, code) ==
    /\ Len(sent') = Len(sent) + 1
    /\ sent'[Len(sent')].Body.Type = CoapTypeAcknowledgement
    /\ sent'[Len(sent')].Body.MessageID = message.MessageID
    /\ sent'[Len(sent')].Body.Code = code

(* C37 (checked under SpecDispatch): in every step that handles a PUT or a *)
(* POST on a path of three ids, the Handler is called only for a resource  *)
(* whose definition is writable (PUT) or for an existing resource whose    *)
(* definition is executable (POST); when it is not called, the request is  *)
(* answered 4.04 if the instance or the resource does not exist and 4.05   *)
(* otherwise, and the values kept by the Handler are unchanged.            *)
C37_WriteExecuteGuarded ==
    [][ (/\ ghost'.rxN = ghost.rxN + 1
         /\ rtMsg'.Code \in {CoapCodePut, CoapCodePost}
         /\ Len(rtMsg'.Path) = 3
         /\ ~extractResourceID(rtMsg'.Path).err) =>
          LET path == rtMsg'.Path
              allowed == IF rtMsg'.Code = CoapCodePut THEN Writable(path[3])
                         ELSE findResource(path) /\ Excutable(path[3])
          IN /\ ghost'.returned # 0 => allowed
             /\ ghost'.returned = 0 =>
                  /\ handler' = handler
                  /\ AnsweredWith(rtMsg', IF findResource(path) THEN CoapCodeNotAllowed
                                                                ELSE CoapCodeNotFound) ]_vars

(* the observation's messageID is the id of a notification it has sent *)
HasNotified(o) ==
    \E i \in 1..Len(local.ids) :
        /\ local.ids[i].task = "observe"
        /\ local.ids[i].obs = o.id
        /\ local.ids[i].mid = o.messageID

(* C38 (checked under SpecNotify): the message-ids given out on the        *)
(* connection by SendRequest and SendRelatedMessage, far fewer than 65536, *)
(* are pairwise distinct, and two observations that have notified do not   *)
(* hold the same message-id.                                               *)
C38_MessageIDsDistinct ==
    /\ \A i, j \in 1..Len(local.ids) : i # j => local.ids[i].mid # local.ids[j].mid
    /\ \A i, j \in 1..Len(observedResource) :
         (/\ i # j
          /\ HasNotified(observedResource[i])
          /\ HasNotified(observedResource[j]))
         => observedResource[i].messageID # observedResource[j].messageID

(* the notification is the last one its observation has sent *)
LastOfObservation(ids, i) ==
    \A j \in (i + 1)..Len(ids) : ~(ids[j].task = "observe" /\ ids[j].obs = ids[i].obs)

(* C39 (checked under SpecNotify): in every step in which the receive task *)
(* handles an RST answering the last notification an observation has sent, *)
(* that observation is not in observedResource afterwards.                 *)
C39_ResetRemovesObservation ==
    [][ (/\ ghost'.rxN = ghost.rxN + 1
         /\ rtMsg'.Type = CoapTypeReset
         /\ LastOfObservation(local.ids, local'.answered)) =>
          \A i \in 1..Len(observedResource') :
              observedResource'[i].id # local.ids[local'.answered].obs ]_vars

(* a receive task is running *)
ReceiveTaskRunning == rtPC \notin {"off", "stopped"}

(* the running receive task is the one of the connection the agent holds,  *)
(* in Connection or in connect before its assignment (64-65); connect      *)
(* starts one only when none is running                                    *)
OneReceiveTask ==
    /\ ReceiveTaskRunning => (Connection # "nil" \/ updPC = "connected")
    /\ updPC = "Register" => ~ReceiveTaskRunning

(* C40 (checked under SpecTeardown): in every state registered implies     *)
(* that Connection is not nil, and at most one connection with a running   *)
(* receive task is held.                                                   *)
C40_RegisteredHasConnection ==
    /\ registered => Connection # "nil"
    /\ OneReceiveTask

(* C40 as amended: registered implies that Connection is not nil in every  *)
(* state but those in which the update task is inside close(), between     *)
(* `Connection = nil` and `registered = false`; at most one connection     *)
(* with a running receive task is held.                                    *)
C40_RegisteredHasConnectionOutsideClose ==
    /\ (registered /\ updPC \notin {"registerCleared", "updateCleared"}) => Connection # "nil"
    /\ OneReceiveTask

(* a registered agent whose Update has timed out, in close() after         *)
(* Coap.Close: the receive task is stopped, Connection is still set        *)
C40_Witness ==
    /\ registered /\ Connection = "coap"
    /\ updPC = "updateClosed" /\ rtPC = "stopped"

====
